---- MODULE Spec2Model ----
(***************************************************************************)
(* Model of the AI model-fallback and retry orchestration of the           *)
(* MagicPixel backend: the Gemini model registry (config/gemini.js), the   *)
(* analyzeImage retry loop and the caller-facing AI operations built on it *)
(* (services/aiService.js).                                                *)
(*                                                                         *)
(* Node.js runs each synchronous stretch of code atomically; a request can *)
(* be interleaved with others only at an await.  Every action below is one *)
(* such synchronous stretch.                                               *)
(*                                                                         *)
(* One analyzeImage invocation is followed through its whole retry loop    *)
(* (pc, attempt, model, lastError, ...).  It runs together with any number *)
(* of other requests that execute the same loop on the shared registry.    *)
(* What another request does to the shared state does not depend on its    *)
(* own locals: it calls getGeminiVisionModel() when it starts an attempt   *)
(* and switchToNextModel() from its catch block.  These two calls, made at *)
(* any time, are the peers of the invocation.                              *)
(***************************************************************************)
EXTENDS Integers, Sequences, FiniteSets, TLC

(***************************************************************************)
(* Bounds of the model.                                                    *)
(***************************************************************************)
MaxTicks == 3           \* clock ticks in a behaviour
TickMs == 30000         \* milliseconds per clock tick

(***************************************************************************)
(* Program constants.                                                      *)
(***************************************************************************)
GEMINI_MODELS ==
    << "gemini-2.0-flash",
       "gemini-2.0-flash-lite",
       "gemini-2.0-flash-thinking-exp-01-21",
       "gemini-2.0-pro-exp-02-05",
       "gemini-1.5-pro",
       "gemini-1.5-flash-8b",
       "gemini-exp-1206" >>

RESET_INTERVAL == 60000
MAX_RETRIES == 7
RETRY_DELAY_MS == 1500

NoError == "<null>"     \* lastError = null

(***************************************************************************)
(* String helpers: String.prototype.includes.                              *)
(***************************************************************************)
Includes(s, sub) ==
    \E i \in 1..(Len(s) - Len(sub) + 1) : SubSeq(s, i, i + Len(sub) - 1) = sub

(***************************************************************************)
(* JavaScript strings.  A string is a TLA+ string; Len, SubSeq and \o work *)
(* on it.                                                                  *)
(***************************************************************************)
CharAt(s, i) == SubSeq(s, i, i)

From(s, i) == SubSeq(s, i, Len(s))

StartsWithAt(s, i, pat) ==
    i + Len(pat) - 1 <= Len(s) /\ SubSeq(s, i, i + Len(pat) - 1) = pat

\* String.prototype.indexOf / lastIndexOf of one character (0: absent)
IndexOf(s, c) ==
    IF \E i \in 1..Len(s) : CharAt(s, i) = c
    THEN CHOOSE i \in 1..Len(s) :
            CharAt(s, i) = c /\ \A j \in 1..(i - 1) : CharAt(s, j) # c
    ELSE 0

LastIndexOf(s, c) ==
    IF \E i \in 1..Len(s) : CharAt(s, i) = c
    THEN CHOOSE i \in 1..Len(s) :
            CharAt(s, i) = c /\ \A j \in (i + 1)..Len(s) : CharAt(s, j) # c
    ELSE 0

UpperCase == "ABCDEFGHIJKLMNOPQRSTUVWXYZ"
LowerCase == "abcdefghijklmnopqrstuvwxyz"
Digits == "0123456789"

SpaceChars == {" ", "\n", "\t", "\r"}
DigitChars == { CharAt(Digits, i) : i \in 1..Len(Digits) }

IsDigit(c) == c \in DigitChars
DigitValue(c) == IndexOf(Digits, c) - 1

LowerChar(c) ==
    IF IndexOf(UpperCase, c) # 0
    THEN CharAt(LowerCase, IndexOf(UpperCase, c))
    ELSE c

\* the first position from i on whose character is in cs (within = TRUE)
\* or is not in cs (within = FALSE); Len(s) + 1: there is none
FirstFrom(s, i, cs, within) ==
    IF \E j \in i..Len(s) : (CharAt(s, j) \in cs) = within
    THEN CHOOSE j \in i..Len(s) :
            /\ (CharAt(s, j) \in cs) = within
            /\ \A k \in i..(j - 1) : (CharAt(s, k) \in cs) # within
    ELSE Len(s) + 1

\* the last position whose character is not in cs (0: there is none)
LastOutside(s, cs) ==
    IF \E j \in 1..Len(s) : CharAt(s, j) \notin cs
    THEN CHOOSE j \in 1..Len(s) :
            /\ CharAt(s, j) \notin cs
            /\ \A k \in (j + 1)..Len(s) : CharAt(s, k) \in cs
    ELSE 0

\* String.prototype.toLowerCase, character by character
RECURSIVE ToLowerCase(_)
ToLowerCase(s) ==
    IF Len(s) = 0 THEN ""
    ELSE IF Len(s) = 1 THEN LowerChar(s)
    ELSE LET h == Len(s) \div 2 IN
         ToLowerCase(SubSeq(s, 1, h)) \o ToLowerCase(From(s, h + 1))

\* String.prototype.trim
Trim(s) ==
    SubSeq(s, FirstFrom(s, 1, SpaceChars, FALSE), LastOutside(s, SpaceChars))

\* The Markdown fence of three backquotes.  A backquote cannot be written in
\* a string here, so the caret stands for it in every text of the model.
Backquote == "^"
Fence == Backquote \o Backquote \o Backquote

\* s.replace(/<pat>\n?/g, ''): every occurrence of pat, with the newline
\* that may follow it, is removed, scanning from the left
RECURSIVE RemoveFences(_, _)

\* the first occurrence of pat in s (0: there is none)
FirstMatch(s, pat) ==
    IF \E i \in 1..Len(s) : StartsWithAt(s, i, pat)
    THEN CHOOSE i \in 1..Len(s) :
            /\ StartsWithAt(s, i, pat)
            /\ \A j \in 1..(i - 1) : ~StartsWithAt(s, j, pat)
    ELSE 0

\* a is the first occurrence of pat in s
RemoveFrom(s, pat, a) ==
    IF a = 0 THEN s
    ELSE SubSeq(s, 1, a - 1)
            \o RemoveFences(From(s, IF StartsWithAt(s, a + Len(pat), "\n")
                                    THEN a + Len(pat) + 1
                                    ELSE a + Len(pat)), pat)

RemoveFences(s, pat) == RemoveFrom(s, pat, FirstMatch(s, pat))

\* the number written by the digits of s (parseInt of a run of digits)
RECURSIVE DigitsValue(_)
DigitsValue(s) ==
    IF Len(s) = 0 THEN 0
    ELSE 10 * DigitsValue(SubSeq(s, 1, Len(s) - 1))
            + DigitValue(CharAt(s, Len(s)))

\* the end of the run of digits that starts at i
DigitRunEnd(s, i) == FirstFrom(s, i, DigitChars, FALSE) - 1

(***************************************************************************)
(* JavaScript values, as JSON.parse and object literals produce them.  A   *)
(* number is held in hundredths (1.5 is Num(150), 90 is Num(9000)).        *)
(***************************************************************************)
Str(s) == [ t |-> "string", v |-> s ]
Num(c) == [ t |-> "number", v |-> c ]
Bool(b) == [ t |-> "boolean", v |-> b ]
Obj(f) == [ t |-> "object", v |-> f ]
Arr(q) == [ t |-> "array", v |-> q ]
Null == [ t |-> "null", v |-> 0 ]
Undefined == [ t |-> "undefined", v |-> 0 ]

EmptyObject == [ k \in {} |-> Null ]

\* o[k] = x
Put(f, k, x) == [ j \in (DOMAIN f) \cup {k} |-> IF j = k THEN x ELSE f[j] ]

\* o.k
Get(o, k) ==
    IF o.t = "object" /\ k \in DOMAIN o.v THEN o.v[k] ELSE Undefined

\* the truth value of x in a condition
Truthy(x) ==
    CASE x.t = "string" -> x.v # ""
      [] x.t = "number" -> x.v # 0
      [] x.t = "boolean" -> x.v
      [] x.t \in {"null", "undefined"} -> FALSE
      [] OTHER -> TRUE

(***************************************************************************)
(* JSON.parse.  A parse result is [ok, val, next]: whether a value was     *)
(* read, the value, and the position after it.  Covered: objects, arrays,  *)
(* strings with the escapes \" \\ \/ \n \t, numbers with up to two         *)
(* decimals and no exponent, true, false, null.                            *)
(***************************************************************************)
ParseError == [ ok |-> FALSE, val |-> Null, next |-> 0 ]

Parsed(x, n) == [ ok |-> TRUE, val |-> x, next |-> n ]

SkipSpace(s, i) == FirstFrom(s, i, SpaceChars, FALSE)

\* A string literal.  ParseChars reads its characters from i on, acc being
\* those read so far; j is the next quote, backslash or control character.
RECURSIVE ParseChars(_, _, _)

AfterRun(s, j, run) ==
    IF j > Len(s) THEN ParseError
    ELSE IF CharAt(s, j) = "\"" THEN Parsed(Str(run), j + 1)
    ELSE IF CharAt(s, j) # "\\" \/ j + 1 > Len(s) THEN ParseError
    ELSE IF CharAt(s, j + 1) \in {"\"", "\\", "/"}
    THEN ParseChars(s, j + 2, run \o CharAt(s, j + 1))
    ELSE IF CharAt(s, j + 1) = "n" THEN ParseChars(s, j + 2, run \o "\n")
    ELSE IF CharAt(s, j + 1) = "t" THEN ParseChars(s, j + 2, run \o "\t")
    ELSE ParseError

RunUpTo(s, i, acc, j) == AfterRun(s, j, acc \o SubSeq(s, i, j - 1))

ParseChars(s, i, acc) ==
    RunUpTo(s, i, acc, FirstFrom(s, i, {"\"", "\\", "\n", "\t", "\r"}, TRUE))

ParseString(s, i) ==
    IF StartsWithAt(s, i, "\"") THEN ParseChars(s, i + 1, "") ELSE ParseError

\* A number: -?(0|[1-9][0-9]*)(\.[0-9]+)?
\* the hundredths written by the decimals ds
Cents(ds) ==
    IF Len(ds) = 1 THEN 10 * DigitsValue(ds)
    ELSE DigitsValue(SubSeq(ds, 1, 2))

\* the decimals are s[p+1..g]
NumberDecimals(s, sign, whole, p, g) ==
    Parsed(Num(sign * (100 * whole + Cents(SubSeq(s, p + 1, g)))), g + 1)

\* the point is at p
NumberFraction(s, sign, whole, p) ==
    IF p + 1 > Len(s) \/ ~IsDigit(CharAt(s, p + 1)) THEN ParseError
    ELSE NumberDecimals(s, sign, whole, p, DigitRunEnd(s, p + 1))

\* the whole part is s[d..e]
NumberWhole(s, sign, d, e) ==
    IF StartsWithAt(s, e + 1, ".")
    THEN NumberFraction(s, sign, DigitsValue(SubSeq(s, d, e)), e + 1)
    ELSE Parsed(Num(sign * 100 * DigitsValue(SubSeq(s, d, e))), e + 1)

\* the digits start at d
NumberDigits(s, sign, d) ==
    IF d > Len(s) \/ ~IsDigit(CharAt(s, d)) THEN ParseError
    ELSE NumberWhole(s, sign, d,
                     IF CharAt(s, d) = "0" THEN d ELSE DigitRunEnd(s, d))

ParseNumber(s, i) ==
    IF StartsWithAt(s, i, "-") THEN NumberDigits(s, -1, i + 1)
    ELSE NumberDigits(s, 1, i)

RECURSIVE ParseValue(_, _)
RECURSIVE ParseMembers(_, _, _)
RECURSIVE ParseElements(_, _, _)

\* An object.  ParseMembers reads its members, the first of them starting at
\* i, f being the members read so far: the key k, the colon at c, the value
\* x, then a comma or the closing brace at n.
AfterMember(s, g, n) ==
    IF StartsWithAt(s, n, "}") THEN Parsed(Obj(g), n + 1)
    ELSE IF StartsWithAt(s, n, ",") THEN ParseMembers(s, SkipSpace(s, n + 1), g)
    ELSE ParseError

MemberValue(s, f, key, x) ==
    IF x.ok THEN AfterMember(s, Put(f, key, x.val), SkipSpace(s, x.next))
    ELSE ParseError

MemberColon(s, f, key, c) ==
    IF StartsWithAt(s, c, ":")
    THEN MemberValue(s, f, key, ParseValue(s, SkipSpace(s, c + 1)))
    ELSE ParseError

MemberKey(s, f, k) ==
    IF k.ok THEN MemberColon(s, f, k.val.v, SkipSpace(s, k.next))
    ELSE ParseError

ParseMembers(s, i, f) == MemberKey(s, f, ParseString(s, i))

\* An array.  ParseElements reads its elements, the first of them starting
\* at i, q being the elements read so far.
AfterElement(s, r, n) ==
    IF StartsWithAt(s, n, "]") THEN Parsed(Arr(r), n + 1)
    ELSE IF StartsWithAt(s, n, ",") THEN ParseElements(s, SkipSpace(s, n + 1), r)
    ELSE ParseError

ElementValue(s, q, x) ==
    IF x.ok THEN AfterElement(s, Append(q, x.val), SkipSpace(s, x.next))
    ELSE ParseError

ParseElements(s, i, q) == ElementValue(s, q, ParseValue(s, i))

\* n is the position after the opening brace or bracket and spaces
ObjectFrom(s, n) ==
    IF StartsWithAt(s, n, "}") THEN Parsed(Obj(EmptyObject), n + 1)
    ELSE ParseMembers(s, n, EmptyObject)

ArrayFrom(s, n) ==
    IF StartsWithAt(s, n, "]") THEN Parsed(Arr(<< >>), n + 1)
    ELSE ParseElements(s, n, << >>)

ParseValue(s, i) ==
    IF StartsWithAt(s, i, "{") THEN ObjectFrom(s, SkipSpace(s, i + 1))
    ELSE IF StartsWithAt(s, i, "[") THEN ArrayFrom(s, SkipSpace(s, i + 1))
    ELSE IF StartsWithAt(s, i, "\"") THEN ParseString(s, i)
    ELSE IF StartsWithAt(s, i, "true") THEN Parsed(Bool(TRUE), i + 4)
    ELSE IF StartsWithAt(s, i, "false") THEN Parsed(Bool(FALSE), i + 5)
    ELSE IF StartsWithAt(s, i, "null") THEN Parsed(Null, i + 4)
    ELSE ParseNumber(s, i)

\* x is the value read at the start of s: nothing but spaces may follow it
WholeText(s, x) ==
    IF x.ok /\ SkipSpace(s, x.next) = Len(s) + 1 THEN x ELSE ParseError

\* JSON.parse(s): ok is FALSE where JSON.parse throws
JsonParse(s) == WholeText(s, ParseValue(s, SkipSpace(s, 1)))

\* a is the first { of s and b its last } (0: there is none)
Span(s, a, b) ==
    IF a # 0 /\ b > a
    THEN [ found |-> TRUE, text |-> SubSeq(s, a, b) ]
    ELSE [ found |-> FALSE, text |-> "" ]

BraceSpan_ToFirstClose(s) == Span(s, IndexOf(s, "{"), IndexOf(s, "}"))

\* cleanResponse.match(/\{[\s\S]*\}/): from the first { to the last }
BraceSpan(s) == Span(s, IndexOf(s, "{"), LastIndexOf(s, "}"))

\* try { return JSON.parse(...) } catch { return null }
ValueOrNull(x) == IF x.ok THEN x.val ELSE Null

\* if (jsonMatch) return JSON.parse(jsonMatch[0]); return null
ParseMatch(jsonMatch) ==
    IF jsonMatch.found THEN ValueOrNull(JsonParse(jsonMatch.text)) ELSE Null

\* parseJsonResponse(response): the parsed value, or Null
parseJsonResponse(response) ==
    ParseMatch(BraceSpan(Trim(
        RemoveFences(RemoveFences(response, Fence \o "json"), Fence))))

(***************************************************************************)
(* The keyword classifier and the fallback (services/aiService.js).        *)
(***************************************************************************)
Instruction(action, parameters, explanation) ==
    Obj([ action |-> Str(action),
          parameters |-> Obj(parameters),
          explanation |-> Str(explanation) ])

Degrees_QuarterTurn(match) == 90

\* match ? parseInt(match[1]) : 90
Degrees(match) == IF match.found THEN DigitsValue(match.text) ELSE 90

RotateBy(degrees) ==
    Instruction("transform", [ rotate |-> Num(100 * degrees) ],
                "Rotating " \o ToString(degrees) \o " degrees")

\* lowerPrompt.match(/(\d+)/): the first run of digits
FirstDigits(s) ==
    IF \E i \in 1..Len(s) : IsDigit(CharAt(s, i))
    THEN LET a == CHOOSE i \in 1..Len(s) :
                    /\ IsDigit(CharAt(s, i))
                    /\ \A j \in 1..(i - 1) : ~IsDigit(CharAt(s, j))
         IN  [ found |-> TRUE, text |-> SubSeq(s, a, DigitRunEnd(s, a)) ]
    ELSE [ found |-> FALSE, text |-> "" ]

\* the instruction chosen for the lower-cased prompt
IntentOf(lowerPrompt) ==
    LET has(w) == Includes(lowerPrompt, w)
    IN  IF has("grayscale") \/ has("black and white") \/ has("b&w")
        THEN Instruction("filter", [ type |-> Str("grayscale") ],
                         "Converting to grayscale")
        ELSE IF has("sepia") \/ has("vintage") \/ has("old")
        THEN Instruction("filter", [ type |-> Str("sepia") ],
                         "Applying vintage sepia effect")
        ELSE IF has("blur")
        THEN Instruction("filter", [ type |-> Str("blur") ],
                         "Applying blur effect")
        ELSE IF has("vibrant") \/ has("colorful") \/ has("saturate")
        THEN Instruction("enhance",
                         [ saturation |-> Num(150), contrast |-> Num(110) ],
                         "Enhancing colors and vibrancy")
        ELSE IF has("bright") \/ has("lighten")
        THEN Instruction("enhance", [ brightness |-> Num(130) ],
                         "Increasing brightness")
        ELSE IF has("dark") \/ has("dim")
        THEN Instruction("enhance", [ brightness |-> Num(70) ],
                         "Reducing brightness")
        ELSE IF has("sharp") \/ has("detail")
        THEN Instruction("enhance",
                         [ sharpen |-> Bool(TRUE), contrast |-> Num(110) ],
                         "Sharpening image")
        ELSE IF has("contrast")
        THEN Instruction("enhance", [ contrast |-> Num(130) ],
                         "Increasing contrast")
        ELSE IF has("rotate")
        THEN RotateBy(Degrees(FirstDigits(lowerPrompt)))
        ELSE IF has("flip") \/ has("mirror")
        THEN LET direction == IF has("vertical") THEN "vertical"
                              ELSE "horizontal"
             IN  Instruction("transform", [ flip |-> Str(direction) ],
                             "Flipping " \o direction \o "ly")
        ELSE IF has("16:9") \/ has("16/9") \/ has("widescreen")
        THEN Instruction("crop", [ aspectRatio |-> Str("16:9") ],
                         "Cropping to 16:9 aspect ratio")
        ELSE IF has("4:3") \/ has("4/3")
        THEN Instruction("crop", [ aspectRatio |-> Str("4:3") ],
                         "Cropping to 4:3 aspect ratio")
        ELSE IF has("square") \/ has("1:1")
        THEN Instruction("crop", [ aspectRatio |-> Str("1:1") ],
                         "Cropping to square")
        ELSE IF has("warm") \/ has("golden")
        THEN Instruction("enhance",
                         [ saturation |-> Num(120), brightness |-> Num(105) ],
                         "Adding warm tones")
        ELSE Instruction("enhance",
                         [ contrast |-> Num(110), saturation |-> Num(110),
                           sharpen |-> Bool(TRUE) ],
                         "General enhancement applied")

extractIntentFromResponse_BlurFirst(response, userPrompt) ==
    IF Includes(ToLowerCase(userPrompt), "blur")
    THEN Instruction("filter", [ type |-> Str("blur") ], "Applying blur effect")
    ELSE IntentOf(ToLowerCase(userPrompt))

extractIntentFromResponse_ReadsResponse(response, userPrompt) ==
    IntentOf(ToLowerCase(response \o " " \o userPrompt))

\* extractIntentFromResponse(response, userPrompt); lowerResponse is computed
\* and never read
extractIntentFromResponse(response, userPrompt) ==
    IntentOf(ToLowerCase(userPrompt))

fallbackProcessing_Unflagged(userPrompt) ==
    extractIntentFromResponse("", userPrompt)

\* fallbackProcessing(userPrompt)
fallbackProcessing(userPrompt) ==
    LET result0 == extractIntentFromResponse("", userPrompt) IN
    Obj(Put(Put(result0.v, "usedFallback", Bool(TRUE)), "fallbackReason",
            Str("AI service quota exceeded. Using smart preset processing.")))

(***************************************************************************)
(* The caller-facing operations.  Each awaits analyzeImage and continues   *)
(* with its outcome r: r.threw tells whether analyzeImage threw, r.value   *)
(* is the text it returned or the message of the error.  An operation ends *)
(* by returning a value or by throwing.                                    *)
(***************************************************************************)
Returns(x) == [ done |-> TRUE, threw |-> FALSE, value |-> x ]

Throws(msg) == [ done |-> TRUE, threw |-> TRUE, value |-> Str(msg) ]

NoResult == [ done |-> FALSE, threw |-> FALSE, value |-> Undefined ]

\* return await analyzeImage(imageBuffer, prompt), outside any try block
Propagate(r) == IF r.threw THEN Throws(r.value) ELSE Returns(Str(r.value))

\* if (parsed) return parsed; return { raw: response }
OrRaw(parsed, response) ==
    IF Truthy(parsed) THEN parsed ELSE Obj([ raw |-> Str(response) ])

ParsedOrRaw(response) == OrRaw(parseJsonResponse(response), response)

generateAltText(r) == Propagate(r)

getEnhancementSuggestions(r) ==
    IF r.threw
    THEN Returns(Obj([
            brightness |-> Str("none"),
            contrast |-> Str("increase"),
            saturation |-> Str("none"),
            sharpness |-> Str("increase"),
            overallQuality |-> Num(700),
            suggestions |-> Arr(<< Str("Consider sharpening the image"),
                                   Str("Adjust contrast for better depth") >>),
            error |-> Str("AI analysis unavailable, showing default suggestions")
         ]))
    ELSE Returns(ParsedOrRaw(r.value))

ParsedOrIntent_Flagged(parsed, response, userPrompt) ==
    IF Truthy(parsed) /\ Truthy(Get(parsed, "action"))
    THEN Returns(parsed)
    ELSE Returns(fallbackProcessing(userPrompt))

\* if (parsed && parsed.action) return parsed;
\* return extractIntentFromResponse(response, userPrompt)
ParsedOrIntent(parsed, response, userPrompt) ==
    IF Truthy(parsed) /\ Truthy(Get(parsed, "action"))
    THEN Returns(parsed)
    ELSE Returns(extractIntentFromResponse(response, userPrompt))

processImageWithPrompt(r, userPrompt) ==
    IF r.threw THEN Returns(fallbackProcessing(userPrompt))
    ELSE ParsedOrIntent(parseJsonResponse(r.value), r.value, userPrompt)

detectObjects(r) ==
    IF r.threw
    THEN Returns(Obj([
            objects |-> Arr(<< >>),
            scene |-> Str("Unable to analyze image"),
            dominantColors |-> Arr(<< >>),
            error |-> Str("AI analysis temporarily unavailable")
         ]))
    ELSE Returns(ParsedOrRaw(r.value))

Idea(title, description, difficulty) ==
    Obj([ title |-> Str(title), description |-> Str(description),
          difficulty |-> Str(difficulty) ])

generateCreativeIdeas(r) ==
    IF r.threw
    THEN Returns(Obj([
            ideas |-> Arr(<<
                Idea("Grayscale Conversion",
                     "Convert to black and white for a classic look", "easy"),
                Idea("Vintage Filter",
                     "Apply sepia tones for a nostalgic feel", "easy"),
                Idea("Enhance Colors",
                     "Boost saturation and vibrancy", "easy"),
                Idea("Sharpen Details",
                     "Increase sharpness for clearer details", "easy"),
                Idea("Adjust Contrast",
                     "Improve depth with contrast adjustment", "medium") >>),
            fallback |-> Bool(TRUE),
            error |-> Str("AI suggestions temporarily unavailable, showing default ideas")
         ]))
    ELSE Returns(ParsedOrRaw(r.value))

Operations ==
    { "analyzeImage", "generateAltText", "getEnhancementSuggestions",
      "processImageWithPrompt", "detectObjects", "generateCreativeIdeas" }

\* what operation o does with the outcome r of its analyzeImage call
Continuation(o, r, userPrompt) ==
    CASE o = "analyzeImage" -> Propagate(r)
      [] o = "generateAltText" -> generateAltText(r)
      [] o = "getEnhancementSuggestions" -> getEnhancementSuggestions(r)
      [] o = "processImageWithPrompt" -> processImageWithPrompt(r, userPrompt)
      [] o = "detectObjects" -> detectObjects(r)
      [] o = "generateCreativeIdeas" -> generateCreativeIdeas(r)

(***************************************************************************)
(* Error messages the provider client (and sharp) may throw.               *)
(***************************************************************************)
MetadataError == "Input buffer contains unsupported image format"

ProviderErrors ==
    { "429 Too Many Requests",
      "404 model is not found",
      "quota exceeded: model not found",
      "fetch failed" }

VARIABLES
    currentModelIndex,  \* gemini.js: let currentModelIndex
    lastResetTime,      \* gemini.js: let lastResetTime
    now,                \* Date.now()
    pc,                 \* position of the invocation in analyzeImage
    attempt,            \* loop variable of analyzeImage
    model,              \* model bound by getGeminiVisionModel()
    lastError,          \* message of lastError
    imageOk,            \* sharp can read the uploaded buffer
    sleepMs,            \* delay of the sleep after the last failure
    result,             \* text returned or message thrown by analyzeImage
    calls,              \* generateContent calls issued by the invocation
    switches,           \* switchToNextModel calls made by the invocation
    thrown,             \* message of the error thrown last inside the try
    disturbed,          \* the selection was reset, or moved by a peer,
                        \* since the invocation began
    lastCall,           \* the last direct call of a registry function
    op,                 \* the operation that called analyzeImage
    userPrompt,         \* userPrompt of processImageWithPrompt
    opResult,           \* how the operation ended: value returned or thrown
    handled,            \* the last two passes through the catch block of
                        \* analyzeImage that were watched, the newer first
    tried,              \* the models that got a generateContent call of the
                        \* invocation while it was watched
    peers,              \* the attempts of other requests that are watched:
                        \* the models they hold, the calls they await, and
                        \* the models called since the last reset
    downloadTracker,    \* cloudinaryService.js: const downloadTracker
    files,              \* the uploaded files at the storage provider
    timers,             \* the deletion timers set by trackDownload
    pending,            \* trackDownload calls awaiting deleteFile
    granted,            \* downloads allowed so far, by publicId
    destroyFailed,      \* a destroy call for the publicId was rejected
    downloadResult      \* the last call of trackDownload or getDownloadStatus

vars == << currentModelIndex, lastResetTime, now, pc, attempt, model,
           lastError, imageOk, sleepMs, result, calls, switches, thrown,
           disturbed, lastCall, op, userPrompt, opResult, handled, tried, peers,
           downloadTracker, files, timers, pending, granted, destroyFailed,
           downloadResult >>

tracking == << downloadTracker, files, timers, pending, granted,
               destroyFailed, downloadResult >>

\* the state outside analyzeImage, the registry and the operations
aside == << handled, tried, peers, tracking >>

operation == << op, userPrompt, opResult >>

invocation == << pc, attempt, model, lastError, imageOk, sleepMs, result,
                 calls, switches, thrown >>

(***************************************************************************)
(* Model registry (config/gemini.js).                                      *)
(***************************************************************************)
ModelAt_First(idx) == GEMINI_MODELS[1]

ModelAt(idx) ==
    IF idx \in 0..(Len(GEMINI_MODELS) - 1)
    THEN GEMINI_MODELS[idx + 1]
    ELSE GEMINI_MODELS[1]

ResetDue_AtInterval(t, last) == t - last >= RESET_INTERVAL

ResetDue_Never(t, last) == FALSE

\* Date.now() - lastResetTime > RESET_INTERVAL
ResetDue(t, last) == t - last > RESET_INTERVAL

\* getGeminiModel(): the registry after the call and the model it returns
getGeminiModel(idx, last, t) ==
    LET reset == ResetDue(t, last)
        idx2 == IF reset THEN 0 ELSE idx
    IN  [ index |-> idx2,
          last  |-> IF reset THEN t ELSE last,
          model |-> ModelAt(idx2) ]

switchToNextModel_Stuck(idx) == [ index |-> idx, switched |-> FALSE ]

switchToNextModel_SkipsOne(idx) ==
    IF idx < Len(GEMINI_MODELS) - 1
    THEN [ index |-> IF idx + 2 < Len(GEMINI_MODELS) THEN idx + 2 ELSE idx + 1,
           switched |-> TRUE ]
    ELSE [ index |-> idx, switched |-> FALSE ]

switchToNextModel_Unguarded(idx) == [ index |-> idx + 1, switched |-> TRUE ]

switchToNextModel_WrapAround(idx) ==
    [ index |-> (idx + 1) % Len(GEMINI_MODELS), switched |-> TRUE ]

\* switchToNextModel(): the index after the call and the value returned
switchToNextModel(idx) ==
    IF idx < Len(GEMINI_MODELS) - 1
    THEN [ index |-> idx + 1, switched |-> TRUE ]
    ELSE [ index |-> idx, switched |-> FALSE ]

(***************************************************************************)
(* Failure classification of analyzeImage's catch block.                   *)
(***************************************************************************)
IsQuota_AnyFailure(msg) == TRUE

IsQuota_WordOnly(msg) == Includes(msg, "quota")

\* error.message.includes('429') || ... ('quota') || ... ('Too Many Requests')
IsQuota(msg) ==
    Includes(msg, "429") \/ Includes(msg, "quota")
        \/ Includes(msg, "Too Many Requests")

\* error.message.includes('404') || error.message.includes('not found')
IsNotFound(msg) == Includes(msg, "404") \/ Includes(msg, "not found")

RecordError_KeepFirst(prev, msg) == IF prev = NoError THEN msg ELSE prev

\* lastError = error
RecordError(prev, msg) == msg

LoopCond_OneMore(a) == a <= MAX_RETRIES

LoopCond_OneLess(a) == a < MAX_RETRIES - 1

\* for (...; attempt < MAX_RETRIES; ...)
LoopCond(a) == a < MAX_RETRIES

CatchBlock_FlatDelay(idx, a, msg) ==
    LET quota == IsQuota(msg)
        s1 == switchToNextModel(idx)
        quotaRetry == quota /\ s1.switched
        idx1 == IF quota THEN s1.index ELSE idx
        notFound == ~quotaRetry /\ IsNotFound(msg)
        s2 == switchToNextModel(idx1)
        notFoundRetry == notFound /\ s2.switched
        idx2 == IF notFound THEN s2.index ELSE idx1
    IN  [ index |-> idx2,
          quota |-> quota,
          notFound |-> notFound,
          sleep |-> IF quotaRetry THEN RETRY_DELAY_MS
                    ELSE IF notFoundRetry THEN 0
                    ELSE IF a < MAX_RETRIES - 1 THEN RETRY_DELAY_MS
                    ELSE 0,
          switchCalls |-> (IF quota THEN 1 ELSE 0)
                            + (IF notFound THEN 1 ELSE 0) ]

CatchBlock_ScaledDelay(idx, a, msg) ==
    LET quota == IsQuota(msg)
        s1 == switchToNextModel(idx)
        quotaRetry == quota /\ s1.switched
        idx1 == IF quota THEN s1.index ELSE idx
        notFound == ~quotaRetry /\ IsNotFound(msg)
        s2 == switchToNextModel(idx1)
        notFoundRetry == notFound /\ s2.switched
        idx2 == IF notFound THEN s2.index ELSE idx1
    IN  [ index |-> idx2,
          quota |-> quota,
          notFound |-> notFound,
          sleep |-> IF quotaRetry THEN RETRY_DELAY_MS * (a + 1)
                    ELSE IF notFoundRetry THEN 0
                    ELSE IF a < MAX_RETRIES - 1 THEN RETRY_DELAY_MS * (a + 1)
                    ELSE 0,
          switchCalls |-> (IF quota THEN 1 ELSE 0)
                            + (IF notFound THEN 1 ELSE 0) ]

\* The catch block of analyzeImage for message msg at attempt a with the
\* registry index idx: the index it leaves, the sleep it awaits (0: none)
\* and the number of switchToNextModel calls it makes.
CatchBlock(idx, a, msg) ==
    LET quota == IsQuota(msg)
        s1 == switchToNextModel(idx)
        quotaRetry == quota /\ s1.switched
        idx1 == IF quota THEN s1.index ELSE idx
        notFound == ~quotaRetry /\ IsNotFound(msg)
        s2 == switchToNextModel(idx1)
        notFoundRetry == notFound /\ s2.switched
        idx2 == IF notFound THEN s2.index ELSE idx1
    IN  [ index |-> idx2,
          quota |-> quota,
          notFound |-> notFound,
          sleep |-> IF quotaRetry THEN RETRY_DELAY_MS
                    ELSE IF notFoundRetry THEN 0
                    ELSE IF a < MAX_RETRIES - 1 THEN RETRY_DELAY_MS * (a + 1)
                    ELSE 0,
          switchCalls |-> (IF quota THEN 1 ELSE 0)
                            + (IF notFound THEN 1 ELSE 0) ]

\* throw new Error(`AI service temporarily unavailable: ${...}. Please ...`)
TerminalMessage(last) ==
    "AI service temporarily unavailable: "
        \o (IF last = NoError \/ last = "" THEN "Unknown error" ELSE last)
        \o ". Please try again later."

Responses == { "A red bicycle leaning on a wall." }

NoHandling == << >>

\* no attempt of another request is under way and no model has been called
NoPeers ==
    [ bound |-> [ i \in 0..(Len(GEMINI_MODELS) - 1) |-> 0 ],
      inflight |-> [ i \in 0..(Len(GEMINI_MODELS) - 1) |-> 0 ],
      called |-> {} ]

\* result.public_id of the uploads
PublicIds == { "magicpixels/a", "magicpixels/b" }

\* downloadTracker.get(publicId) is undefined
NoEntry == [ tracked |-> FALSE, downloads |-> 0, maxDownloads |-> 0 ]

NoDownloadCall ==
    [ op |-> "none", id |-> "", threw |-> FALSE, value |-> [ remaining |-> 0 ] ]

NoCall == [ op |-> "none", index |-> 0, last |-> 0, time |-> 0, prev |-> 0,
            prevGet |-> -1, ret |-> "" ]

Init ==
    /\ currentModelIndex = 0
    /\ lastResetTime = 0
    /\ now = 0
    /\ pc = "idle"
    /\ attempt = 0
    /\ model = GEMINI_MODELS[1]
    /\ lastError = NoError
    /\ imageOk = TRUE
    /\ sleepMs = 0
    /\ result = ""
    /\ calls = 0
    /\ switches = 0
    /\ thrown = NoError
    /\ disturbed = FALSE
    /\ lastCall = NoCall
    /\ op = "analyzeImage"
    /\ userPrompt = ""
    /\ opResult = NoResult
    /\ handled = NoHandling
    /\ tried = {}
    /\ peers = NoPeers
    /\ downloadTracker = [ id \in PublicIds |-> NoEntry ]
    /\ files = [ id \in PublicIds |-> "none" ]
    /\ timers = [ id \in PublicIds |-> "none" ]
    /\ pending = [ id \in PublicIds |-> 0 ]
    /\ granted = [ id \in PublicIds |-> 0 ]
    /\ destroyFailed = [ id \in PublicIds |-> FALSE ]
    /\ downloadResult = NoDownloadCall

\* Time passes.
Tick ==
    /\ now + TickMs <= MaxTicks * TickMs
    /\ now' = now + TickMs
    /\ UNCHANGED << currentModelIndex, lastResetTime, invocation, disturbed,
                    lastCall, operation,
                    aside >>

(***************************************************************************)
(* analyzeImage, followed for one invocation.                              *)
(***************************************************************************)
\* Top of one loop iteration, entered with loop variable a, the registry
\* (idx, last) and last error err: either the loop is over and analyzeImage
\* throws, or getGeminiVisionModel() runs and the invocation awaits sharp's
\* metadata.
Iterate(a, idx, last, err) ==
    /\ attempt' = a
    /\ IF LoopCond(a)
       THEN LET g == getGeminiModel(idx, last, now) IN
            /\ currentModelIndex' = g.index
            /\ lastResetTime' = g.last
            /\ model' = g.model
            /\ pc' = "metadata"
            /\ disturbed' = (a > 0 /\ (disturbed \/ ResetDue(now, last)))
            /\ UNCHANGED result
       ELSE /\ currentModelIndex' = idx
            /\ lastResetTime' = last
            /\ pc' = "failed"
            /\ result' = TerminalMessage(err)
            /\ UNCHANGED << model, disturbed >>

\* analyzeImage is called: lastError = null, attempt = 0, first iteration up
\* to its first await.
Start(ok) ==
    /\ pc = "idle"
    /\ imageOk' = ok
    /\ lastError' = NoError
    /\ thrown' = NoError
    /\ sleepMs' = 0
    /\ calls' = 0
    /\ switches' = 0
    /\ Iterate(0, currentModelIndex, lastResetTime, NoError)
    /\ UNCHANGED << now, lastCall,
                    aside >>

\* The catch block runs with error message msg, up to the next await or the
\* end of analyzeImage.
Fail(msg) ==
    LET c == CatchBlock(currentModelIndex, attempt, msg)
        err == RecordError(lastError, msg)
    IN  /\ thrown' = msg
        /\ lastError' = err
        /\ switches' = switches + c.switchCalls
        /\ sleepMs' = c.sleep
        /\ IF c.sleep > 0
           THEN /\ pc' = "sleep"
                /\ currentModelIndex' = c.index
                /\ UNCHANGED << lastResetTime, attempt, model, result,
                                disturbed >>
           ELSE Iterate(attempt + 1, c.index, lastResetTime, err)

\* sharp(imageBuffer).metadata() settles: generateContent is issued, or the
\* rejection is caught.
MetadataSettles ==
    /\ pc = "metadata"
    /\ IF imageOk
       THEN /\ pc' = "generate"
            /\ calls' = calls + 1
            /\ UNCHANGED << currentModelIndex, lastResetTime, attempt, model,
                            lastError, sleepMs, result, switches, thrown,
                            disturbed >>
       ELSE /\ Fail(MetadataError)
            /\ UNCHANGED calls
    /\ UNCHANGED << now, imageOk, lastCall, operation,
                    aside >>

\* model.generateContent(...) resolves and analyzeImage returns the text.
ProviderSucceeds(text) ==
    /\ pc = "generate"
    /\ pc' = "returned"
    /\ result' = text
    /\ UNCHANGED << currentModelIndex, lastResetTime, now, attempt, model,
                    lastError, imageOk, sleepMs, calls, switches, thrown,
                    disturbed, lastCall, operation,
                    aside >>

\* model.generateContent(...) rejects with message msg.
ProviderFails(msg) ==
    /\ pc = "generate"
    /\ Fail(msg)
    /\ UNCHANGED << now, imageOk, calls, lastCall, operation,
                    aside >>

\* The sleep ends; the loop goes on with the next attempt.
Wake ==
    /\ pc = "sleep"
    /\ Iterate(attempt + 1, currentModelIndex, lastResetTime, lastError)
    /\ UNCHANGED << now, lastError, imageOk, sleepMs, calls, switches,
                    thrown, lastCall, operation,
                    aside >>

\* Operation o is called (with userPrompt p where it takes one) and calls
\* analyzeImage.
Call(o, p, ok) ==
    /\ op' = o
    /\ userPrompt' = p
    /\ opResult' = NoResult
    /\ Start(ok)

\* The await of analyzeImage in the operation settles and the operation
\* runs to its end.
Complete ==
    /\ pc \in {"returned", "failed"}
    /\ ~opResult.done
    /\ opResult' = Continuation(op, [ threw |-> pc = "failed",
                                      value |-> result ], userPrompt)
    /\ UNCHANGED << currentModelIndex, lastResetTime, now, invocation,
                    disturbed, lastCall, op, userPrompt,
                    aside >>

\* The caller has consumed the outcome; the locals of the call are gone.
Finish ==
    /\ pc \in {"returned", "failed"}
    /\ opResult.done
    /\ op' = "analyzeImage"
    /\ userPrompt' = ""
    /\ opResult' = NoResult
    /\ pc' = "idle"
    /\ attempt' = 0
    /\ model' = GEMINI_MODELS[1]
    /\ lastError' = NoError
    /\ thrown' = NoError
    /\ imageOk' = TRUE
    /\ sleepMs' = 0
    /\ result' = ""
    /\ calls' = 0
    /\ switches' = 0
    /\ disturbed' = FALSE
    /\ UNCHANGED << currentModelIndex, lastResetTime, now, lastCall,
                    aside >>

(***************************************************************************)
(* Other requests running analyzeImage at the same time.                   *)
(***************************************************************************)
\* Another request starts an attempt: getGeminiVisionModel().
PeerGetsModel ==
    /\ LET g == getGeminiModel(currentModelIndex, lastResetTime, now) IN
       /\ currentModelIndex' = g.index
       /\ lastResetTime' = g.last
    /\ disturbed' = (disturbed \/ (pc # "idle"
                                      /\ ResetDue(now, lastResetTime)))
    /\ UNCHANGED << now, invocation, lastCall, operation,
                    aside >>

\* An attempt of another request fails with message msg: its catch block.
PeerFails(msg) ==
    /\ currentModelIndex' = CatchBlock(currentModelIndex, 0, msg).index
    /\ disturbed' = (disturbed \/ (pc # "idle"
                                      /\ currentModelIndex' # currentModelIndex))
    /\ UNCHANGED << lastResetTime, now, invocation, lastCall, operation,
                    aside >>

Next ==
    \/ Tick
    \/ \E ok \in BOOLEAN : Call("analyzeImage", "", ok)
    \/ MetadataSettles
    \/ \E text \in Responses : ProviderSucceeds(text)
    \/ \E msg \in ProviderErrors : ProviderFails(msg)
    \/ Wake
    \/ Complete
    \/ Finish
    \/ PeerGetsModel
    \/ \E msg \in ProviderErrors : PeerFails(msg)

Spec == Init /\ [][Next]_vars

(***************************************************************************)
(* The registry functions called directly, in any order and at any time    *)
(* (config/gemini.js exports them).  lastCall records the call: the        *)
(* registry and the clock it found, the time of the call before it, the    *)
(* time of the getGeminiModel call before it (-1 when there was none) and  *)
(* the value it returned.                                                  *)
(***************************************************************************)
CallRecord(name, ret) ==
    [ op |-> name, index |-> currentModelIndex, last |-> lastResetTime,
      time |-> now, prev |-> lastCall.time,
      prevGet |-> IF lastCall.op = "getGeminiModel" THEN lastCall.time
                  ELSE lastCall.prevGet,
      ret |-> ret ]

CallGetGeminiModel ==
    /\ LET g == getGeminiModel(currentModelIndex, lastResetTime, now) IN
       /\ currentModelIndex' = g.index
       /\ lastResetTime' = g.last
       /\ lastCall' = CallRecord("getGeminiModel", g.model)
    /\ UNCHANGED << now, invocation, disturbed, operation, aside >>

CallSwitchToNextModel ==
    /\ LET w == switchToNextModel(currentModelIndex) IN
       /\ currentModelIndex' = w.index
       /\ lastCall' = CallRecord("switchToNextModel", w.switched)
    /\ UNCHANGED << lastResetTime, now, invocation, disturbed, operation,
                    aside >>

\* resetModelSelection()
resetModelSelection ==
    /\ currentModelIndex' = 0
    /\ lastResetTime' = now
    /\ lastCall' = CallRecord("resetModelSelection", "")
    /\ UNCHANGED << now, invocation, disturbed, operation, aside >>

RegistryNext ==
    \/ Tick
    \/ CallGetGeminiModel
    \/ CallSwitchToNextModel
    \/ resetModelSelection

RegistrySpec == Init /\ [][RegistryNext]_vars

(***************************************************************************)
(* The end-to-end scenario of a provider that answers "429 Too Many        *)
(* Requests" on every candidate but the last and succeeds on the last, for *)
(* invocations whose first attempt gets the first candidate.               *)
(***************************************************************************)
ScenarioStart ==
    /\ getGeminiModel(currentModelIndex, lastResetTime, now).index = 0
    /\ Call("analyzeImage", "", TRUE)

ScenarioProvider ==
    IF model = GEMINI_MODELS[Len(GEMINI_MODELS)]
    THEN \E text \in Responses : ProviderSucceeds(text)
    ELSE ProviderFails("429 Too Many Requests")

ScenarioNext ==
    \/ Tick
    \/ ScenarioStart
    \/ MetadataSettles
    \/ ScenarioProvider
    \/ Wake
    \/ Complete
    \/ Finish
    \/ PeerGetsModel
    \/ \E msg \in ProviderErrors : PeerFails(msg)

ScenarioSpec == Init /\ [][ScenarioNext]_vars

(***************************************************************************)
(* The caller-facing operations, one at a time, over every answer of the   *)
(* provider.                                                               *)
(***************************************************************************)
AiResponses ==
    Responses \cup
    { "{\"action\":\"filter\",\"parameters\":{\"type\":\"sepia\"},\"explanation\":\"Warm vintage look\"}",
      Fence \o "json\n{\"action\": \"rotate\", \"parameters\": {\"angle\": 90}}\n" \o Fence,
      "{\"action\":\"\",\"parameters\":{}}",
      "Sure! {\"action\": \"crop\", \"parameters\": {\"aspectRatio\": \"16:9\"}",
      "{\"brightness\":\"increase\",\"overallQuality\":8,\"suggestions\":[\"Sharpen the edges\"]}" }

UserPrompts ==
    { "Make it Black and White", "rotate 45 degrees", "golden hour glow",
      "improve this photo" }

PromptsOf(o) == IF o = "processImageWithPrompt" THEN UserPrompts ELSE {""}

OpNext ==
    \/ \E o \in Operations, ok \in BOOLEAN :
          \E p \in PromptsOf(o) : Call(o, p, ok)
    \/ MetadataSettles
    \/ \E text \in AiResponses : ProviderSucceeds(text)
    \/ \E msg \in ProviderErrors : ProviderFails(msg)
    \/ Wake
    \/ Complete
    \/ Finish

OpSpec == Init /\ [][OpNext]_vars

(***************************************************************************)
(* extractIntentFromResponse and parseJsonResponse called directly, on     *)
(* prompts and texts drawn from the sets below, while the selection state  *)
(* moves.                                                                  *)
(***************************************************************************)
Keywords ==
    { "grayscale", "black and white", "b&w", "sepia", "vintage", "old",
      "blur", "vibrant", "colorful", "saturate", "bright", "lighten",
      "dark", "dim", "sharp", "detail", "contrast", "rotate", "flip",
      "mirror", "vertical", "16:9", "16/9", "widescreen", "4:3", "4/3",
      "square", "1:1", "warm", "golden" }

GroupWords ==
    { "b&w", "sepia", "blur", "vibrant", "lighten", "dim", "detail",
      "contrast", "rotate", "mirror", "widescreen", "4/3", "square",
      "warm" }

TextPrompts ==
    Keywords
    \cup { a \o " " \o b : a, b \in GroupWords }
    \cup { "", "improve this photo", "Convert to Black and White",
           "rotate this 90 degrees", "Rotate 45 then 180", "ROTATE it",
           "turn it by 30", "rotate2x 007", "FLIP it Vertically",
           "golden hour" }

\* answers of the provider handed to the classifier
ClassifyTexts ==
    { "", "I would blur the background and rotate it by 15 degrees.",
      "{\"action\":\"crop\",\"parameters\":{\"aspectRatio\":\"1:1\"}}" }

TextPrefixes ==
    { "", Fence \o "json\n", Fence \o "\n", "Sure! here it is: ", " \n" }

TextBodies ==
    { "{\"a\":1}",
      "{\"a\":1} and {\"b\":2}",
      "{}",
      "no json here",
      "{\"action\": \"filter\", \"parameters\": {\"type\": \"blur\"}}",
      "{\"list\": [1, 2.5, true, null], \"nested\": {\"k\": \"v\"}}",
      "{\"a\":1,}",
      "{\"a\": \"open",
      "} reversed {",
      "{a: 1}" }

TextSuffixes == { "", "\n" \o Fence, " done.", Fence \o "json  " }

Texts ==
    { a \o b \o c : a \in TextPrefixes, b \in TextBodies, c \in TextSuffixes }

\* the state at module load, with the prompt and the text in hand
InitWith(p, text) ==
    /\ currentModelIndex = 0
    /\ lastResetTime = 0
    /\ now = 0
    /\ pc = "idle"
    /\ attempt = 0
    /\ model = GEMINI_MODELS[1]
    /\ lastError = NoError
    /\ imageOk = TRUE
    /\ sleepMs = 0
    /\ result = text
    /\ calls = 0
    /\ switches = 0
    /\ thrown = NoError
    /\ disturbed = FALSE
    /\ lastCall = NoCall
    /\ op = "analyzeImage"
    /\ userPrompt = p
    /\ opResult = NoResult
    /\ handled = NoHandling
    /\ tried = {}
    /\ peers = NoPeers
    /\ downloadTracker = [ id \in PublicIds |-> NoEntry ]
    /\ files = [ id \in PublicIds |-> "none" ]
    /\ timers = [ id \in PublicIds |-> "none" ]
    /\ pending = [ id \in PublicIds |-> 0 ]
    /\ granted = [ id \in PublicIds |-> 0 ]
    /\ destroyFailed = [ id \in PublicIds |-> FALSE ]
    /\ downloadResult = NoDownloadCall

ClassifyInit == \E p \in TextPrompts : InitWith(p, "")

\* extractIntentFromResponse(response, userPrompt) is called
CallExtractIntent(response) ==
    /\ op' = "extractIntentFromResponse"
    /\ result' = response
    /\ opResult' = Returns(extractIntentFromResponse(response, userPrompt))
    /\ UNCHANGED << currentModelIndex, lastResetTime, now, pc, attempt, model,
                    lastError, imageOk, sleepMs, calls, switches, thrown,
                    disturbed, lastCall, userPrompt,
                    aside >>

ClassifyNext ==
    \/ \E response \in ClassifyTexts : CallExtractIntent(response)
    \/ CallSwitchToNextModel

ClassifySpec == ClassifyInit /\ [][ClassifyNext]_vars

ParseInit == \E text \in Texts : InitWith("", text)

\* parseJsonResponse(response) is called on the text in hand
CallParseJson ==
    /\ ~opResult.done
    /\ op' = "parseJsonResponse"
    /\ opResult' = Returns(parseJsonResponse(result))
    /\ UNCHANGED << currentModelIndex, lastResetTime, now, invocation,
                    disturbed, lastCall, userPrompt,
                    aside >>

ParseNext == CallParseJson

ParseSpec == ParseInit /\ [][ParseNext]_vars

(***************************************************************************)
(* POST /api/ai-edit (routes/aiEdit.js): the handler asks                  *)
(* processImageWithPrompt for instructions, applies them to the uploaded   *)
(* image and answers with the instructions and the list actionsApplied.    *)
(* The image functions (sharp and the image service) and the upload are    *)
(* taken to succeed on what they are given.                                *)
(***************************************************************************)
\* a number in hundredths, as a template literal writes it
NumberText(c) ==
    LET a == IF c < 0 THEN -c ELSE c
        whole == ToString(a \div 100)
        frac == a % 100
    IN  (IF c < 0 THEN "-" ELSE "")
            \o whole
            \o (IF frac = 0 THEN ""
                ELSE IF frac % 10 = 0 THEN "." \o ToString(frac \div 10)
                ELSE IF frac < 10 THEN ".0" \o ToString(frac)
                ELSE "." \o ToString(frac))

\* `${x}`
TemplateText(x) ==
    CASE x.t = "string" -> x.v
      [] x.t = "number" -> NumberText(x.v)
      [] x.t = "boolean" -> IF x.v THEN "true" ELSE "false"
      [] x.t = "null" -> "null"
      [] x.t = "undefined" -> "undefined"
      [] x.t = "array" -> ""
      [] OTHER -> "[object Object]"

Applied(actions) == [ threw |-> FALSE, actions |-> actions, message |-> "" ]

Raised(msg) == [ threw |-> TRUE, actions |-> << >>, message |-> msg ]

\* case 'crop'
ApplyCrop(params) ==
    LET aspectRatio == Get(params, "aspectRatio") IN
    IF Truthy(aspectRatio)
    THEN IF aspectRatio.t = "string"
         THEN Applied(<< "Cropped to " \o aspectRatio.v \o " aspect ratio" >>)
         ELSE Raised("params.aspectRatio.split is not a function")
    ELSE IF Get(params, "left") # Undefined
    THEN Applied(<< "Applied custom crop" >>)
    ELSE Applied(<< >>)

\* case 'filter'
ApplyFilter(params) ==
    LET type == Get(params, "type") IN
    IF type = Str("grayscale") THEN Applied(<< "Applied grayscale filter" >>)
    ELSE IF type = Str("sepia") THEN Applied(<< "Applied sepia filter" >>)
    ELSE IF type = Str("blur") THEN Applied(<< "Applied blur filter" >>)
    ELSE Applied(<< >>)

\* case 'transform'
ApplyTransform(params) ==
    LET rotate == Get(params, "rotate")
        flip == Get(params, "flip")
    IN  Applied(
            (IF Truthy(rotate)
             THEN << "Rotated " \o TemplateText(rotate) \o " degrees" >>
             ELSE << >>)
            \o (IF Truthy(flip)
                THEN << "Flipped " \o TemplateText(flip) \o "ly" >>
                ELSE << >>))

\* if (instructions.action && instructions.parameters) switch (...) {...}
ApplyEdits(instructions) ==
    LET action == Get(instructions, "action")
        params == Get(instructions, "parameters")
    IN  IF ~(Truthy(action) /\ Truthy(params)) THEN Applied(<< >>)
        ELSE CASE action = Str("resize") ->
                    Applied(<< "Resized to "
                                \o TemplateText(Get(params, "width")) \o "x"
                                \o TemplateText(Get(params, "height")) >>)
               [] action = Str("crop") -> ApplyCrop(params)
               [] action = Str("enhance") ->
                    Applied(<< "Applied enhancements" >>)
               [] action = Str("filter") -> ApplyFilter(params)
               [] action = Str("transform") -> ApplyTransform(params)
               [] OTHER -> Applied(<< "No specific action applied" >>)

\* res.status(status).json(body)
Response(status, body) ==
    Returns(Obj([ status |-> Num(100 * status), body |-> body ]))

BadRequest(msg) ==
    Response(400, Obj([ success |-> Bool(FALSE), error |-> Str(msg) ]))

\* the handler, for a request with or without a file and with the given
\* prompt, r being the outcome of the analyzeImage call underneath
aiEdit(hasFile, prompt, r) ==
    IF ~hasFile THEN BadRequest("No file uploaded")
    ELSE IF prompt = "" THEN BadRequest("Prompt is required for AI editing")
    ELSE LET instructions == processImageWithPrompt(r, prompt).value
             e == ApplyEdits(instructions)
         IN  IF e.threw THEN Throws(e.message)
             ELSE Response(200, Obj([
                    success |-> Bool(TRUE),
                    data |-> Obj([
                        aiInstructions |-> instructions,
                        actionsApplied |->
                            Arr([ i \in 1..Len(e.actions) |->
                                        Str(e.actions[i]) ]),
                        originalPrompt |-> Str(prompt) ]) ]))

\* answers of the provider to the prompt of processImageWithPrompt
EditTexts ==
    { "{\"action\":\"filter\",\"parameters\":{\"type\":\"vintage\"}}",
      "{\"action\":\"filter\",\"parameters\":{\"type\":\"blur\"}}",
      "{\"action\":\"transform\",\"parameters\":{\"rotate\":0}}",
      "{\"action\":\"transform\",\"parameters\":{\"rotate\":90,\"flip\":\"horizontal\"}}",
      "{\"action\":\"resize\",\"parameters\":{\"width\":800,\"height\":600,\"fit\":\"cover\"}}",
      "{\"action\":\"crop\",\"parameters\":{\"left\":0,\"top\":0,\"width\":100,\"height\":100}}",
      "{\"action\":\"crop\",\"parameters\":{\"aspectRatio\":\"16:9\"}}",
      "{\"action\":\"crop\",\"parameters\":{\"aspectRatio\":1.5}}",
      "{\"action\":\"enhance\",\"parameters\":{\"brightness\":1.2,\"sharpen\":false}}",
      "{\"action\":\"sharpen\",\"parameters\":{}}",
      "I would brighten it a little." }

EditPrompts ==
    Keywords
    \cup { "", "improve this photo", "rotate 0 degrees", "rotate 45 degrees",
           "golden hour" }

EditInit == \E p \in EditPrompts, text \in EditTexts : InitWith(p, text)

\* a request arrives and is answered; analyzeImage underneath either returned
\* the text in hand or threw its terminal error
PostAiEdit(hasFile, threw) ==
    /\ ~opResult.done
    /\ op' = "POST /api/ai-edit"
    /\ opResult' =
          aiEdit(hasFile, userPrompt,
                 [ threw |-> threw,
                   value |-> IF threw THEN TerminalMessage("fetch failed")
                             ELSE result ])
    /\ UNCHANGED << currentModelIndex, lastResetTime, now, invocation,
                    disturbed, lastCall, userPrompt,
                    aside >>

EditNext == \E hasFile, threw \in BOOLEAN : PostAiEdit(hasFile, threw)

EditSpec == EditInit /\ [][EditNext]_vars

(***************************************************************************)
(* The catch block of analyzeImage, watched pass by pass: an attempt of    *)
(* some request fails with a message while the clock runs and other        *)
(* requests begin their attempts.  handled keeps the last two passes.      *)
(***************************************************************************)
\* One pass through the catch block: the message, the branches taken, and
\* currentModelIndex before and after.
Handling(idx, msg, c) ==
    [ msg |-> msg, quota |-> c.quota, notFound |-> c.notFound,
      index |-> idx, after |-> c.index ]

\* handled once one more pass h is recorded
Recorded(h, before) ==
    IF before = NoHandling THEN << h >> ELSE << h, before[1] >>

\* The attempt with loop variable a fails with message msg: the catch block.
CatchError(a, msg) ==
    /\ currentModelIndex' = CatchBlock(currentModelIndex, a, msg).index
    /\ handled' = Recorded(Handling(currentModelIndex, msg,
                                    CatchBlock(currentModelIndex, a, msg)),
                           handled)
    /\ UNCHANGED << lastResetTime, now, invocation, disturbed, lastCall,
                    operation, tried, peers, tracking >>

HandleNext ==
    \/ Tick
    \/ PeerGetsModel
    \/ \E a \in 0..(MAX_RETRIES - 1), msg \in ProviderErrors \cup {MetadataError} :
          CatchError(a, msg)

HandleSpec == Init /\ [][HandleNext]_vars

(***************************************************************************)
(* A systemic quota event: one invocation of analyzeImage, watched call by *)
(* call, while every generateContent call is rejected with a quota or      *)
(* rate-limit message.  Other requests fail and begin attempts before and  *)
(* during the invocation, and the clock runs.                              *)
(***************************************************************************)
\* the provider's rate-limit answer
QuotaErrors == { "429 Too Many Requests" }

\* analyzeImage is called once.
QuotaStart ==
    /\ tried = {}
    /\ Call("analyzeImage", "", TRUE)

\* sharp's metadata resolves and generateContent is issued on the model of
\* the attempt.
IssueCall ==
    /\ pc = "metadata"
    /\ imageOk
    /\ pc' = "generate"
    /\ calls' = calls + 1
    /\ tried' = tried \cup {model}
    /\ UNCHANGED << currentModelIndex, lastResetTime, now, attempt, model,
                    lastError, imageOk, sleepMs, result, switches, thrown,
                    disturbed, lastCall, operation, handled, peers,
                    tracking >>

QuotaNext ==
    \/ Tick
    \/ QuotaStart
    \/ IssueCall
    \/ \E msg \in QuotaErrors : ProviderFails(msg)
    \/ Wake
    \/ PeerGetsModel
    \/ \E msg \in ProviderErrors : PeerFails(msg)

QuotaSpec == Init /\ [][QuotaNext]_vars

(***************************************************************************)
(* Concurrent requests, watched attempt by attempt: each attempt obtains   *)
(* its model, awaits sharp's metadata, issues generateContent and awaits   *)
(* the answer; a failed call runs the catch block on the registry as it is *)
(* by then.  peers.bound[i] and peers.inflight[i] count the attempts that  *)
(* hold the model at index i before and after issuing their call.          *)
(***************************************************************************)
\* attempts of other requests under way at a time
MaxPeers == 2

RECURSIVE CountUpTo(_, _)
CountUpTo(bag, i) == IF i < 0 THEN 0 ELSE bag[i] + CountUpTo(bag, i - 1)

\* the attempts under way
Busy(p) ==
    CountUpTo(p.bound, Len(GEMINI_MODELS) - 1)
        + CountUpTo(p.inflight, Len(GEMINI_MODELS) - 1)

\* const model = getGeminiVisionModel(), at the top of an attempt
PeerObtains ==
    /\ Busy(peers) < MaxPeers
    /\ LET g == getGeminiModel(currentModelIndex, lastResetTime, now) IN
       /\ currentModelIndex' = g.index
       /\ lastResetTime' = g.last
       /\ peers' = [ peers EXCEPT
                       !.bound[g.index] = @ + 1,
                       !.called = IF ResetDue(now, lastResetTime)
                                  THEN {} ELSE @ ]
    /\ UNCHANGED << now, invocation, disturbed, lastCall, operation, handled,
                    tried, tracking >>

\* sharp's metadata resolves: model.generateContent(...) is issued on the
\* model the attempt holds.
PeerIssuesCall(i) ==
    /\ peers.bound[i] > 0
    /\ peers' = [ peers EXCEPT !.bound[i] = @ - 1, !.inflight[i] = @ + 1,
                               !.called = @ \cup {i} ]
    /\ UNCHANGED << currentModelIndex, lastResetTime, now, invocation,
                    disturbed, lastCall, operation, handled, tried, tracking >>

\* sharp's metadata rejects: the catch block runs with a generic error.
PeerMetadataFails(i) ==
    /\ peers.bound[i] > 0
    /\ peers' = [ peers EXCEPT !.bound[i] = @ - 1 ]
    /\ currentModelIndex' = CatchBlock(currentModelIndex, 0, MetadataError).index
    /\ UNCHANGED << lastResetTime, now, invocation, disturbed, lastCall,
                    operation, handled, tried, tracking >>

\* The call resolves and the request returns.
PeerCallSucceeds(i) ==
    /\ peers.inflight[i] > 0
    /\ peers' = [ peers EXCEPT !.inflight[i] = @ - 1 ]
    /\ UNCHANGED << currentModelIndex, lastResetTime, now, invocation,
                    disturbed, lastCall, operation, handled, tried, tracking >>

\* The call issued on the model at index i rejects with message msg: the
\* catch block runs.
PeerCallFails(i, msg) ==
    /\ peers.inflight[i] > 0
    /\ peers' = [ peers EXCEPT !.inflight[i] = @ - 1 ]
    /\ currentModelIndex' = CatchBlock(currentModelIndex, 0, msg).index
    /\ UNCHANGED << lastResetTime, now, invocation, disturbed, lastCall,
                    operation, handled, tried, tracking >>

PeersNext ==
    \/ Tick
    \/ PeerObtains
    \/ \E i \in 0..(Len(GEMINI_MODELS) - 1) : PeerIssuesCall(i)
    \/ \E i \in 0..(Len(GEMINI_MODELS) - 1) : PeerMetadataFails(i)
    \/ \E i \in 0..(Len(GEMINI_MODELS) - 1) : PeerCallSucceeds(i)
    \/ \E i \in 0..(Len(GEMINI_MODELS) - 1), msg \in ProviderErrors :
          PeerCallFails(i, msg)

PeersSpec == Init /\ [][PeersNext]_vars

(***************************************************************************)
(* Download tracking (services/cloudinaryService.js): every upload         *)
(* registers its public_id in downloadTracker; POST /download calls        *)
(* trackDownload and GET /status calls getDownloadStatus.  Calls for the   *)
(* same publicId run concurrently: a step is the code between two awaits.  *)
(***************************************************************************)
\* maxDownloads: 3
maxDownloads == 3

\* trackDownload calls that may await deleteFile for one publicId at a time
MaxPending == 2

\* { downloads, maxDownloads, createdAt }
Entry(d, m) == [ tracked |-> TRUE, downloads |-> d, maxDownloads |-> m ]

LimitReached_Above(t) == t.downloads > t.maxDownloads

LimitReached_OneEarly(t) == t.downloads >= t.maxDownloads - 1

\* tracker.downloads >= tracker.maxDownloads
LimitReached(t) == t.downloads >= t.maxDownloads

\* tracker.downloads++
Counted(t) == Entry(t.downloads + 1, t.maxDownloads)

TimerAfter_Never(t, timer) == timer

\* if (tracker.downloads >= tracker.maxDownloads) setTimeout(..., 5000)
TimerAfter(t, timer) == IF LimitReached(t) THEN "set" ELSE timer

\* getDownloadStatus(publicId), for the entry found in downloadTracker
getDownloadStatus(t) ==
    IF ~t.tracked
    THEN [ exists |-> FALSE, downloads |-> 0, remaining |-> 0 ]
    ELSE [ exists |-> TRUE, downloads |-> t.downloads,
           remaining |-> t.maxDownloads - t.downloads,
           maxDownloads |-> t.maxDownloads ]

Returned(name, id, value) ==
    [ op |-> name, id |-> id, threw |-> FALSE, value |-> value ]

\* throw new Error(`Delete failed: ${error.message}`) leaves trackDownload
Rejected(name, id) ==
    [ op |-> name, id |-> id, threw |-> TRUE,
      value |-> [ remaining |-> 0, error |-> "Delete failed" ] ]

NotFoundResult ==
    [ allowed |-> FALSE, error |-> "File not found or already deleted",
      remaining |-> 0 ]

LimitResult ==
    [ allowed |-> FALSE,
      error |-> "Download limit reached. File has been deleted.",
      remaining |-> 0 ]

\* { allowed: true, remaining, downloads: tracker.downloads }
AllowedResult(t) ==
    [ allowed |-> TRUE, remaining |-> t.maxDownloads - t.downloads,
      downloads |-> t.downloads ]

\* An upload ends: the storage provider has made up a new public_id and the
\* callback registers it.
Upload(id) ==
    /\ files[id] = "none"
    /\ files' = [ files EXCEPT ![id] = "stored" ]
    /\ downloadTracker' =
          [ downloadTracker EXCEPT ![id] = Entry(0, maxDownloads) ]
    /\ UNCHANGED << timers, pending, granted, destroyFailed, downloadResult >>

\* trackDownload(publicId) finds no entry and returns.
TrackUnknown(id) ==
    /\ ~downloadTracker[id].tracked
    /\ downloadResult' = Returned("trackDownload", id, NotFoundResult)
    /\ UNCHANGED << downloadTracker, files, timers, pending, granted,
                    destroyFailed >>

\* trackDownload(publicId) finds the limit reached and awaits deleteFile.
TrackOverLimit(id) ==
    /\ downloadTracker[id].tracked
    /\ LimitReached(downloadTracker[id])
    /\ pending[id] < MaxPending
    /\ pending' = [ pending EXCEPT ![id] = @ + 1 ]
    /\ UNCHANGED << downloadTracker, files, timers, granted, destroyFailed,
                    downloadResult >>

\* trackDownload(publicId) counts the download, sets the deletion timer
\* after the last one, and returns.
TrackAllowed(id) ==
    /\ downloadTracker[id].tracked
    /\ ~LimitReached(downloadTracker[id])
    /\ downloadTracker' =
          [ downloadTracker EXCEPT ![id] = Counted(downloadTracker[id]) ]
    /\ timers' =
          [ timers EXCEPT ![id] = TimerAfter(Counted(downloadTracker[id]), @) ]
    /\ granted' = [ granted EXCEPT ![id] = @ + 1 ]
    /\ downloadResult' =
          Returned("trackDownload", id,
                   AllowedResult(Counted(downloadTracker[id])))
    /\ UNCHANGED << files, pending, destroyFailed >>

\* trackDownload(publicId) is called and runs to its return or to its await.
CallTrackDownload(id) ==
    /\ TrackUnknown(id) \/ TrackOverLimit(id) \/ TrackAllowed(id)
    /\ UNCHANGED << currentModelIndex, lastResetTime, now, invocation,
                    disturbed, lastCall, operation, handled, tried, peers >>

\* deleteFile, once cloudinary.uploader.destroy has resolved:
\* downloadTracker.delete(publicId)
deleteFile(tracker, id) == [ tracker EXCEPT ![id] = NoEntry ]

\* The destroy call of a waiting trackDownload settles: resolved, deleteFile
\* and trackDownload drop the entry and trackDownload returns; rejected,
\* trackDownload throws.
DeleteSettles(id, ok) ==
    /\ pending[id] > 0
    /\ pending' = [ pending EXCEPT ![id] = @ - 1 ]
    /\ IF ok
       THEN /\ files' = [ files EXCEPT ![id] = "destroyed" ]
            /\ downloadTracker' = deleteFile(downloadTracker, id)
            /\ downloadResult' = Returned("trackDownload", id, LimitResult)
            /\ UNCHANGED destroyFailed
       ELSE /\ destroyFailed' = [ destroyFailed EXCEPT ![id] = TRUE ]
            /\ downloadResult' = Rejected("trackDownload", id)
            /\ UNCHANGED << files, downloadTracker >>
    /\ UNCHANGED << currentModelIndex, lastResetTime, now, invocation,
                    disturbed, lastCall, operation, handled, tried, peers, timers, granted >>

\* The 5 s timer set by the last download fires: deleteFile is called.
TimerFires(id) ==
    /\ timers[id] = "set"
    /\ timers' = [ timers EXCEPT ![id] = "deleting" ]
    /\ UNCHANGED << currentModelIndex, lastResetTime, now, invocation,
                    disturbed, lastCall, operation, handled, tried, peers, downloadTracker,
                    files, pending, granted, destroyFailed, downloadResult >>

\* The destroy call of the timer settles: resolved, the entry is dropped;
\* rejected, the callback logs 'Auto-delete failed'.
TimerDeleteSettles(id, ok) ==
    /\ timers[id] = "deleting"
    /\ IF ok
       THEN /\ timers' = [ timers EXCEPT ![id] = "done" ]
            /\ files' = [ files EXCEPT ![id] = "destroyed" ]
            /\ downloadTracker' = deleteFile(downloadTracker, id)
            /\ UNCHANGED destroyFailed
       ELSE /\ timers' = [ timers EXCEPT ![id] = "failed" ]
            /\ destroyFailed' = [ destroyFailed EXCEPT ![id] = TRUE ]
            /\ UNCHANGED << files, downloadTracker >>
    /\ UNCHANGED << currentModelIndex, lastResetTime, now, invocation,
                    disturbed, lastCall, operation, handled, tried, peers, pending, granted,
                    downloadResult >>

\* getDownloadStatus(publicId) is called.
CallGetDownloadStatus(id) ==
    /\ downloadResult' =
          Returned("getDownloadStatus", id,
                   getDownloadStatus(downloadTracker[id]))
    /\ UNCHANGED << currentModelIndex, lastResetTime, now, invocation,
                    disturbed, lastCall, operation, handled, tried, peers, downloadTracker,
                    files, timers, pending, granted, destroyFailed >>

\* An upload of any tool ends.
UploadEnds(id) ==
    /\ Upload(id)
    /\ UNCHANGED << currentModelIndex, lastResetTime, now, invocation,
                    disturbed, lastCall, operation, handled, tried, peers >>

DownloadNext ==
    \/ \E id \in PublicIds : UploadEnds(id)
    \/ \E id \in PublicIds : CallTrackDownload(id)
    \/ \E id \in PublicIds : CallGetDownloadStatus(id)
    \/ \E id \in PublicIds, ok \in BOOLEAN : DeleteSettles(id, ok)
    \/ \E id \in PublicIds : TimerFires(id)
    \/ \E id \in PublicIds, ok \in BOOLEAN : TimerDeleteSettles(id, ok)

DownloadSpec == Init /\ [][DownloadNext]_vars

\* The timer fires while the process runs, and every destroy call settles.
DownloadFairness ==
    \A id \in PublicIds :
        /\ WF_vars(TimerFires(id))
        /\ WF_vars(\E ok \in BOOLEAN : TimerDeleteSettles(id, ok))
        /\ WF_vars(\E ok \in BOOLEAN : DeleteSettles(id, ok))

FairDownloadSpec == DownloadSpec /\ DownloadFairness

(***************************************************************************)
(* The awaited promises settle: sharp answers, the provider answers or its *)
(* request times out, and the sleep timer fires.                           *)
(***************************************************************************)
FairSpec ==
    /\ Spec
    /\ WF_vars(MetadataSettles)
    /\ WF_vars((\E text \in Responses : ProviderSucceeds(text))
                  \/ (\E msg \in ProviderErrors : ProviderFails(msg)))
    /\ WF_vars(Wake)

LastIndex == Len(GEMINI_MODELS) - 1

IsCandidate(m) == \E i \in 1..Len(GEMINI_MODELS) : m = GEMINI_MODELS[i]

ThrownMessages == ProviderErrors \cup {MetadataError}

(***************************************************************************)
(* C1: whatever registry functions are called, in whatever order and at    *)
(* whatever time, currentModelIndex stays within 0..length-1 and the model *)
(* getGeminiModel hands out is one of the candidates.                      *)
(***************************************************************************)
C1_IndexInRange ==
    /\ currentModelIndex \in 0..LastIndex
    /\ lastCall.op = "getGeminiModel" => IsCandidate(lastCall.ret)

\* an auto-reset that found the index at the last candidate
C1_Witness ==
    /\ lastCall.op = "getGeminiModel"
    /\ lastCall.index = LastIndex
    /\ ResetDue(lastCall.time, lastCall.last)
    /\ currentModelIndex = 0

(***************************************************************************)
(* C2: one analyzeImage invocation issues at most MAX_RETRIES              *)
(* generateContent calls.                                                  *)
(***************************************************************************)
C2_AttemptBound == calls <= MAX_RETRIES

\* every attempt reached the provider and failed
C2_Witness == pc = "failed" /\ calls = MAX_RETRIES

(***************************************************************************)
(* C3: an invocation ends, and ends either by returning the text of the    *)
(* first successful generateContent call, after which it does nothing      *)
(* more, or by throwing once all MAX_RETRIES attempts have failed; no      *)
(* failure is thrown to the caller while attempts remain.                  *)
(***************************************************************************)
C3_Terminal ==
    /\ [](pc = "returned" =>
            /\ result \in Responses
            /\ attempt < MAX_RETRIES
            /\ calls = attempt + 1)
    /\ [](pc = "failed" => attempt = MAX_RETRIES /\ thrown # NoError)
    /\ [][pc = "returned" =>
            \/ pc' = "idle"
            \/ UNCHANGED invocation]_vars
    /\ (pc \in {"metadata", "generate", "sleep"}
            ~> pc \in {"returned", "failed"})

\* success on the very last attempt
C3_Witness == pc = "returned" /\ attempt = MAX_RETRIES - 1

(***************************************************************************)
(* C4: the error analyzeImage throws carries the message of the error of   *)
(* its most recent failed attempt and of no other.                         *)
(***************************************************************************)
C4_LastErrorKept ==
    pc = "failed" =>
        /\ Includes(result, thrown)
        /\ \A m \in ThrownMessages \ {thrown} : ~Includes(result, m)

\* the last attempt failed with a network error after an earlier attempt
\* had failed with a quota or not-found error
C4_Witness ==
    /\ pc = "failed"
    /\ thrown = "fetch failed"
    /\ switches > 0

(***************************************************************************)
(* C5: every AI-dependent operation whose analyzeImage call ended in the   *)
(* terminal error returns a flagged degraded result (usedFallback with a   *)
(* fallbackReason, or an error field) and does not throw to its caller.    *)
(***************************************************************************)
Flagged(x) ==
    \/ Truthy(Get(x, "usedFallback")) /\ Truthy(Get(x, "fallbackReason"))
    \/ Truthy(Get(x, "error"))

C5_AlwaysDegrades ==
    (pc = "failed" /\ opResult.done) =>
        (~opResult.threw /\ Flagged(opResult.value))

(***************************************************************************)
(* C6: when analyzeImage ends without any provider call having succeeded,  *)
(* it has thrown the terminal error, and processImageWithPrompt then       *)
(* returns, without throwing, an instruction with usedFallback = true and  *)
(* a fallbackReason whose action and parameters are those the classifier   *)
(* gives for userPrompt.                                                   *)
(***************************************************************************)
ServiceUnavailable(msg) ==
    StartsWithAt(msg, 1, "AI service temporarily unavailable: ")

C6_FallbackOnFailure ==
    (op = "processImageWithPrompt" /\ pc = "failed") =>
        /\ ServiceUnavailable(result)
        /\ opResult.done =>
              LET classified ==
                      extractIntentFromResponse("no answer", userPrompt)
              IN  /\ ~opResult.threw
                  /\ Get(opResult.value, "usedFallback") = Bool(TRUE)
                  /\ Get(opResult.value, "fallbackReason").t = "string"
                  /\ Get(opResult.value, "fallbackReason").v # ""
                  /\ Get(opResult.value, "action") = Get(classified, "action")
                  /\ Get(opResult.value, "parameters")
                        = Get(classified, "parameters")

C6_Witness ==
    /\ op = "processImageWithPrompt"
    /\ pc = "failed"
    /\ calls = MAX_RETRIES
    /\ opResult.done
    /\ userPrompt = "rotate 45 degrees"
    /\ Get(Get(opResult.value, "parameters"), "rotate") = Num(4500)

(***************************************************************************)
(* C7: with a provider that fails with "429 Too Many Requests" on the      *)
(* first 6 candidates and succeeds on the 7th, an invocation that begins   *)
(* at the first candidate returns after exactly 7 attempts and 6           *)
(* switchToNextModel calls and leaves currentModelIndex at 6.              *)
(***************************************************************************)
ScenarioEnds == pc' # pc /\ pc' \in {"returned", "failed"}

ScenarioOutcome ==
    /\ pc' = "returned"
    /\ attempt' = MAX_RETRIES - 1
    /\ calls' = MAX_RETRIES
    /\ switches' = LastIndex
    /\ currentModelIndex' = LastIndex

\* as claimed: for every such invocation
C7_Original == [][ScenarioEnds => ScenarioOutcome]_vars

\* as amended: provided no auto-reset happened and no other request moved
\* currentModelIndex while the invocation ran
C7_UndisturbedScenario ==
    [][ScenarioEnds /\ ~disturbed' => ScenarioOutcome]_vars

\* an undisturbed invocation that went through all seven candidates
C7_Witness ==
    /\ pc = "returned"
    /\ ~disturbed
    /\ model = GEMINI_MODELS[Len(GEMINI_MODELS)]
    /\ switches = LastIndex

(***************************************************************************)
(* C8: switchToNextModel below the last index adds exactly 1 and returns   *)
(* true; at the last index it returns false and changes neither the index  *)
(* nor lastResetTime; it returns false exactly at the last index and never *)
(* lowers the index.                                                       *)
(***************************************************************************)
C8_SwitchContract ==
    lastCall.op = "switchToNextModel" =>
        /\ lastCall.index < LastIndex =>
                currentModelIndex = lastCall.index + 1 /\ lastCall.ret = TRUE
        /\ lastCall.index = LastIndex =>
                /\ lastCall.ret = FALSE
                /\ currentModelIndex = lastCall.index
                /\ lastResetTime = lastCall.last
        /\ lastCall.ret = FALSE <=> lastCall.index = LastIndex
        /\ currentModelIndex >= lastCall.index

\* a call at the last index
C8_Witness ==
    /\ lastCall.op = "switchToNextModel"
    /\ lastCall.index = LastIndex
    /\ lastCall.ret = FALSE

(***************************************************************************)
(* C9: getGeminiModel called at time t sets the index to 0 and             *)
(* lastResetTime to t exactly when t - lastResetTime > 60000 and otherwise *)
(* changes neither; switchToNextModel leaves lastResetTime alone; so a     *)
(* call coming more than 60 s after the call before it hands out the first *)
(* candidate and sets lastResetTime to its own time.                       *)
(***************************************************************************)
C9_AutoReset ==
    /\ lastCall.op = "getGeminiModel" =>
          /\ IF lastCall.time - lastCall.last > 60000
             THEN /\ currentModelIndex = 0
                  /\ lastResetTime = lastCall.time
             ELSE /\ currentModelIndex = lastCall.index
                  /\ lastResetTime = lastCall.last
          /\ lastCall.time - lastCall.prev > 60000 =>
                /\ lastCall.ret = GEMINI_MODELS[1]
                /\ lastResetTime = lastCall.time
    /\ lastCall.op = "switchToNextModel" => lastResetTime = lastCall.last

\* a call more than 60 s after the one before it, with the index advanced
C9_Witness ==
    /\ lastCall.op = "getGeminiModel"
    /\ lastCall.time - lastCall.prev > 60000
    /\ lastCall.index > 0

(***************************************************************************)
(* C10: every value processImageWithPrompt returns, whether parsed from    *)
(* the provider's text, classified from the prompt or produced by the      *)
(* fallback, has its action in {resize, crop, enhance, filter, transform}. *)
(***************************************************************************)
ClosedActions == { "resize", "crop", "enhance", "filter", "transform" }

C10_ActionClosed ==
    (op = "processImageWithPrompt" /\ opResult.done /\ ~opResult.threw) =>
        /\ Get(opResult.value, "action").t = "string"
        /\ Get(opResult.value, "action").v \in ClosedActions

(***************************************************************************)
(* C11: the classifier returns the instruction of the first keyword group, *)
(* in the order grayscale, sepia, blur, vibrant, bright, dark, sharpen,    *)
(* contrast, rotate, flip, 16:9, 4:3, 1:1, warm, that has a keyword in the *)
(* lower-cased prompt, and the default enhancement (contrast 1.1,          *)
(* saturation 1.1, sharpen) when no group has one.                         *)
(***************************************************************************)
Group(words, action, parameters, key) ==
    [ words |-> words, action |-> action, parameters |-> parameters,
      key |-> key ]

\* the groups in their order; key names the parameter of a group whose value
\* is taken from the prompt
KeywordGroups ==
    << Group({"grayscale", "black and white", "b&w"}, "filter",
             Obj([ type |-> Str("grayscale") ]), ""),
       Group({"sepia", "vintage", "old"}, "filter",
             Obj([ type |-> Str("sepia") ]), ""),
       Group({"blur"}, "filter", Obj([ type |-> Str("blur") ]), ""),
       Group({"vibrant", "colorful", "saturate"}, "enhance",
             Obj([ saturation |-> Num(150), contrast |-> Num(110) ]), ""),
       Group({"bright", "lighten"}, "enhance",
             Obj([ brightness |-> Num(130) ]), ""),
       Group({"dark", "dim"}, "enhance", Obj([ brightness |-> Num(70) ]), ""),
       Group({"sharp", "detail"}, "enhance",
             Obj([ sharpen |-> Bool(TRUE), contrast |-> Num(110) ]), ""),
       Group({"contrast"}, "enhance", Obj([ contrast |-> Num(130) ]), ""),
       Group({"rotate"}, "transform", Undefined, "rotate"),
       Group({"flip", "mirror"}, "transform", Undefined, "flip"),
       Group({"16:9", "16/9", "widescreen"}, "crop",
             Obj([ aspectRatio |-> Str("16:9") ]), ""),
       Group({"4:3", "4/3"}, "crop", Obj([ aspectRatio |-> Str("4:3") ]), ""),
       Group({"square", "1:1"}, "crop",
             Obj([ aspectRatio |-> Str("1:1") ]), ""),
       Group({"warm", "golden"}, "enhance",
             Obj([ saturation |-> Num(120), brightness |-> Num(105) ]), "") >>

GroupMatches(i, lower) ==
    \E w \in KeywordGroups[i].words : Includes(lower, w)

MatchingGroups(lower) ==
    { i \in 1..Len(KeywordGroups) : GroupMatches(i, lower) }

\* instruction x is the one of group i
IsOfGroup(x, i) ==
    /\ Get(x, "action") = Str(KeywordGroups[i].action)
    /\ IF KeywordGroups[i].key = ""
       THEN Get(x, "parameters") = KeywordGroups[i].parameters
       ELSE DOMAIN Get(x, "parameters").v = { KeywordGroups[i].key }

IsDefaultEnhancement(x) ==
    /\ Get(x, "action") = Str("enhance")
    /\ Get(x, "parameters")
          = Obj([ contrast |-> Num(110), saturation |-> Num(110),
                  sharpen |-> Bool(TRUE) ])

\* instruction x is the one the groups give for the lower-cased prompt
IsFirstMatch(x, matching) ==
    IF matching = {} THEN IsDefaultEnhancement(x)
    ELSE \E i \in matching : IsOfGroup(x, i) /\ \A j \in matching : i <= j

Classified == op = "extractIntentFromResponse" /\ opResult.done

C11_FirstGroupWins ==
    Classified =>
        IsFirstMatch(opResult.value, MatchingGroups(ToLowerCase(userPrompt)))

C11_Witness ==
    /\ Classified
    /\ userPrompt = "blur sepia"
    /\ {2, 3} \subseteq MatchingGroups(ToLowerCase(userPrompt))
    /\ IsOfGroup(opResult.value, 2)

(***************************************************************************)
(* C12: the instruction the classifier returns depends on userPrompt       *)
(* alone: a call with the same prompt and any other response text returns  *)
(* the same instruction, whatever the selection state is at the time, and  *)
(* a call leaves currentModelIndex and lastResetTime as they were.         *)
(***************************************************************************)
SameForEveryResponse ==
    Classified =>
        \A response \in ClassifyTexts :
            extractIntentFromResponse(response, userPrompt) = opResult.value

ClassifierCalled == Classified' /\ (result' # result \/ ~Classified)

DigitPositions(s) == { i \in 1..Len(s) : IsDigit(CharAt(s, i)) }

\* s[a..b] is the first run of digits of s
IsFirstRun(s, a, b) ==
    /\ a \in DigitPositions(s)
    /\ \A i \in DigitPositions(s) : a <= i
    /\ \A i \in a..b : i \in DigitPositions(s)
    /\ (b + 1) \notin DigitPositions(s)

\* d is the angle the prompt asks for
IsAngleOf(d, s) ==
    IF DigitPositions(s) = {} THEN d = 90
    ELSE \E a \in 1..Len(s), b \in 1..Len(s) :
            IsFirstRun(s, a, b) /\ d = DigitsValue(SubSeq(s, a, b))

RotateIsFirst ==
    /\ Classified
    /\ GroupMatches(9, ToLowerCase(userPrompt))
    /\ \A i \in 1..8 : ~GroupMatches(i, ToLowerCase(userPrompt))

C13_RotateAngle ==
    RotateIsFirst =>
        /\ Get(opResult.value, "action") = Str("transform")
        /\ DOMAIN Get(opResult.value, "parameters").v = {"rotate"}
        /\ Get(Get(opResult.value, "parameters"), "rotate").t = "number"
        /\ Get(Get(opResult.value, "parameters"), "rotate").v % 100 = 0
        /\ IsAngleOf(Get(Get(opResult.value, "parameters"), "rotate").v
                        \div 100, userPrompt)

C13_Witness ==
    /\ RotateIsFirst
    /\ userPrompt = "Rotate 45 then 180"
    /\ Get(Get(opResult.value, "parameters"), "rotate") = Num(4500)

(***************************************************************************)
(* C14: parseJsonResponse returns the JSON value of the text that runs     *)
(* from the first { to the last } of the response once every fence marker  *)
(* (three backquotes, with or without json after them) is taken out and    *)
(* the rest trimmed; it returns null when there is no such text or when it *)
(* is not valid JSON, and it always returns.                               *)
(***************************************************************************)
\* the starts of the occurrences of pat in s; bare fences are counted from
\* the left without overlap inside a run of backquotes
MarkerStarts(s, pat) ==
    { i \in 1..Len(s) :
        /\ StartsWithAt(s, i, pat)
        /\ pat = Fence =>
              \E a \in 1..i :
                 /\ \A k \in a..i : CharAt(s, k) = Backquote
                 /\ (a = 1 \/ CharAt(s, a - 1) # Backquote)
                 /\ (i - a) % Len(Fence) = 0 }

MarkerPositions(s, pat) ==
    { k \in 1..Len(s) :
        \E i \in MarkerStarts(s, pat) : k \in i..(i + Len(pat) - 1) }

\* s[lo..hi] without the positions in gone
RECURSIVE Without(_, _, _, _)
Without(s, lo, hi, gone) ==
    IF lo > hi THEN ""
    ELSE IF lo = hi THEN (IF lo \in gone THEN "" ELSE CharAt(s, lo))
    ELSE Without(s, lo, (lo + hi) \div 2, gone)
            \o Without(s, (lo + hi) \div 2 + 1, hi, gone)

StripMarkers(s, pat) == Without(s, 1, Len(s), MarkerPositions(s, pat))

Unfenced(s) == Trim(StripMarkers(StripMarkers(s, Fence \o "json"), Fence))

Opens(s) == { i \in 1..Len(s) : CharAt(s, i) = "{" }

Closes(s) == { i \in 1..Len(s) : CharAt(s, i) = "}" }

\* x is what the claim gives for the unfenced text s
IsParseOf(x, s) ==
    IF \E a \in Opens(s), b \in Closes(s) : a < b
    THEN \E a \in Opens(s), b \in Closes(s) :
            /\ \A i \in Opens(s) : a <= i
            /\ \A i \in Closes(s) : i <= b
            /\ x = ValueOrNull(JsonParse(SubSeq(s, a, b)))
    ELSE x = Null

JsonParsed == op = "parseJsonResponse" /\ opResult.done

C14_ParseOrNull ==
    JsonParsed =>
        /\ ~opResult.threw
        /\ IsParseOf(opResult.value, Unfenced(result))

C14_Witness ==
    /\ JsonParsed
    /\ result = Fence \o "json\n{\"a\":1}\n" \o Fence
    /\ opResult.value = Obj([ a |-> Num(100) ])

(***************************************************************************)
(* C15.  Classification idempotence: when the catch block of analyzeImage  *)
(* handles the same provider error message twice, the classification       *)
(* (quota, not-found or other) is the same both times, and so is the       *)
(* change made to the registry.                                            *)
(***************************************************************************)
\* the classification of a pass: the first branch of the catch block it took
ClassOf(h) ==
    IF h.quota THEN "quota" ELSE IF h.notFound THEN "not-found" ELSE "other"

\* the change a pass made to currentModelIndex
MutationOf(h) == h.after - h.index

AtLastModel(h) == h.index = Len(GEMINI_MODELS) - 1

HandledTwice == Len(handled) = 2 /\ handled[1].msg = handled[2].msg

\* As stated: same classification and same change, wherever the registry is.
C15_Original ==
    HandledTwice =>
        /\ ClassOf(handled[1]) = ClassOf(handled[2])
        /\ MutationOf(handled[1]) = MutationOf(handled[2])

\* C15, amended.  The classification is the same both times.  The change to
\* the registry is the same both times when both passes find
\* currentModelIndex below the last model (one step forward for quota and
\* not-found, none for other); a pass that finds it at the last model
\* leaves it where it is.
C15_SameBelowLast ==
    HandledTwice =>
        /\ ClassOf(handled[1]) = ClassOf(handled[2])
        /\ (~AtLastModel(handled[1]) /\ ~AtLastModel(handled[2]))
              => /\ MutationOf(handled[1]) = MutationOf(handled[2])
                 /\ MutationOf(handled[1]) =
                        (IF ClassOf(handled[1]) = "other" THEN 0 ELSE 1)
        /\ \A i \in 1..2 : AtLastModel(handled[i]) => MutationOf(handled[i]) = 0

C15_Witness ==
    /\ HandledTwice
    /\ handled[1].msg = "429 Too Many Requests"
    /\ ClassOf(handled[1]) = "quota"
    /\ ClassOf(handled[2]) = "quota"
    /\ MutationOf(handled[1]) = 1
    /\ MutationOf(handled[2]) = 1

(***************************************************************************)
(* C16.  For every tracked publicId trackDownload returns allowed: true at *)
(* most maxDownloads (3) times, whatever the interleaving of download      *)
(* requests and the deletion timer; in every reachable state               *)
(* 0 <= downloads <= maxDownloads, and the remaining count reported,       *)
(* maxDownloads - downloads, is never negative.                            *)
(***************************************************************************)
C16_AtMostMaxDownloads ==
    /\ \A id \in PublicIds :
          /\ granted[id] <= maxDownloads
          /\ downloadTracker[id].tracked =>
                /\ downloadTracker[id].maxDownloads = maxDownloads
                /\ downloadTracker[id].downloads \in 0..maxDownloads
                /\ downloadTracker[id].downloads = granted[id]
          /\ getDownloadStatus(downloadTracker[id]).remaining >= 0
    /\ downloadResult.value.remaining >= 0
    /\ (downloadResult.op = "trackDownload" /\ ~downloadResult.threw
            /\ downloadResult.value.allowed) =>
          /\ downloadResult.value.downloads \in 1..maxDownloads
          /\ downloadResult.value.remaining =
                maxDownloads - downloadResult.value.downloads

C16_Witness ==
    \E id \in PublicIds :
        /\ granted[id] = maxDownloads
        /\ timers[id] = "deleting"
        /\ pending[id] > 0
        /\ downloadResult = Returned("trackDownload", id,
                                     AllowedResult(Entry(maxDownloads,
                                                         maxDownloads)))

(***************************************************************************)
(* C17.  After the download that brings downloads up to maxDownloads has   *)
(* been granted, the file is eventually destroyed at the storage provider  *)
(* and its tracker entry removed, provided the destroy call succeeds; from *)
(* then on trackDownload for that publicId returns allowed: false and      *)
(* getDownloadStatus reports exists: false.                                *)
(***************************************************************************)
LastGranted(id) ==
    /\ downloadTracker[id].tracked
    /\ downloadTracker[id].downloads = downloadTracker[id].maxDownloads

Gone(id) == files[id] = "destroyed" /\ ~downloadTracker[id].tracked

\* a call of trackDownload(id) or getDownloadStatus(id) is made and returns
CalledFor(id) ==
    /\ downloadResult' # downloadResult
    /\ downloadResult'.id = id
    /\ pending' = pending

C17_EventuallyDeleted ==
    /\ \A id \in PublicIds :
          LastGranted(id) ~> (Gone(id) \/ destroyFailed[id])
    /\ [][\A id \in PublicIds : Gone(id) => Gone(id)']_vars
    /\ [](\A id \in PublicIds :
            Gone(id) => ~getDownloadStatus(downloadTracker[id]).exists)
    /\ [][\A id \in PublicIds :
            (Gone(id) /\ CalledFor(id)) =>
                /\ ~downloadResult'.threw
                /\ downloadResult'.op = "trackDownload" =>
                      downloadResult'.value = NotFoundResult
                /\ downloadResult'.op = "getDownloadStatus" =>
                      ~downloadResult'.value.exists]_vars

C17_Witness ==
    \E id \in PublicIds :
        /\ Gone(id)
        /\ granted[id] = maxDownloads
        /\ timers[id] = "done"
        /\ ~destroyFailed[id]
        /\ downloadResult = Returned("trackDownload", id, NotFoundResult)

(***************************************************************************)
(* C18.  With MAX_RETRIES equal to the number of candidate models (7), in  *)
(* a systemic quota event a single analyzeImage invocation issues at least *)
(* one provider call to every candidate model before it fails, whatever    *)
(* the selection state it starts from and whatever other requests do in    *)
(* the meantime.                                                           *)
(***************************************************************************)
Candidates == { GEMINI_MODELS[i] : i \in 1..Len(GEMINI_MODELS) }

\* the candidates from index first to the last one
CandidatesFrom(first) ==
    { ModelAt(i) : i \in first..(Len(GEMINI_MODELS) - 1) }

\* As stated: every candidate was called by the time the invocation fails.
C18_Original == pc = "failed" => tried = Candidates

\* C18, amended.  An invocation during which no auto-reset happens and no
\* other request changes currentModelIndex calls, before it fails in a
\* systemic quota event, every candidate from the one of its first attempt to
\* the last one, and so every candidate when it starts at the first one.
C18_FromFirstAttempt ==
    /\ MAX_RETRIES = Len(GEMINI_MODELS)
    /\ (pc = "failed" /\ ~disturbed) =>
          /\ calls = MAX_RETRIES
          /\ \E first \in 0..(Len(GEMINI_MODELS) - 1) :
                tried = CandidatesFrom(first)
          /\ GEMINI_MODELS[1] \in tried => tried = Candidates

C18_Witness ==
    /\ pc = "failed"
    /\ ~disturbed
    /\ calls = MAX_RETRIES
    /\ tried = Candidates
    /\ thrown \in QuotaErrors

(***************************************************************************)
(* C19.  After an attempt of an invocation fails with a generic error      *)
(* (neither quota or rate limit nor not found), the next attempt of the    *)
(* same invocation issues its provider call on the same model as the       *)
(* failed attempt.                                                         *)
(***************************************************************************)
GenericErrors == { "fetch failed", MetadataError }

\* the attempt after one that failed with a generic error obtains its model
RetriesAfterGeneric ==
    /\ pc = "sleep"
    /\ thrown \in GenericErrors
    /\ pc' = "metadata"

\* As stated: the model is the same, whatever happens during the backoff.
C19_Original == [][RetriesAfterGeneric => model' = model]_vars

\* C19, amended.  The next attempt calls the same model when no auto-reset
\* has happened and no other request has changed currentModelIndex since the
\* invocation began.
C19_SameModelUndisturbed ==
    /\ [][(RetriesAfterGeneric /\ ~disturbed') =>
            /\ model' = model
            /\ currentModelIndex' = currentModelIndex]_vars
    /\ [][(pc = "metadata" /\ pc' = "generate") => model' = model]_vars

C19_Witness ==
    /\ pc = "generate"
    /\ attempt = 1
    /\ calls = 2
    /\ thrown = "fetch failed"
    /\ switches = 0
    /\ ~disturbed
    /\ model = GEMINI_MODELS[1]
    /\ currentModelIndex = 0

(***************************************************************************)
(* C20.  The selection state is shared by all requests: once a quota or    *)
(* not-found failure of one request has advanced currentModelIndex to k,   *)
(* every attempt of any request that obtains its model afterwards and      *)
(* before the next reset or auto-reset uses the candidate at index k or a  *)
(* later one, never an earlier one.                                        *)
(***************************************************************************)
\* currentModelIndex = 0; lastResetTime = Date.now()
ResetStep == lastResetTime' # lastResetTime

\* an attempt of the invocation calls getGeminiVisionModel()
ObtainsModel == pc' = "metadata" /\ (pc # "metadata" \/ attempt' # attempt)

C20_NeverEarlier ==
    /\ [][~ResetStep => currentModelIndex' >= currentModelIndex]_vars
    /\ [][ResetStep => currentModelIndex' = 0]_vars
    /\ [][\A k \in 0..(Len(GEMINI_MODELS) - 1) :
            (currentModelIndex >= k /\ ObtainsModel /\ ~ResetStep) =>
                \E i \in k..(Len(GEMINI_MODELS) - 1) :
                    /\ currentModelIndex' = i
                    /\ model' = GEMINI_MODELS[i + 1]]_vars

C20_Witness ==
    /\ pc = "metadata"
    /\ attempt = 0
    /\ switches = 0
    /\ currentModelIndex = 2
    /\ model = GEMINI_MODELS[3]
    /\ lastResetTime = 0

(***************************************************************************)
(* C21.  No candidate model is passed over untried: currentModelIndex      *)
(* moves from k to k+1 only in response to a failed provider call issued   *)
(* on model k, so under every interleaving of concurrent requests a        *)
(* provider call has been issued, since the last reset, on every model at  *)
(* an index below the current one.                                         *)
(***************************************************************************)
C21_NoneSkipped ==
    \A i \in 0..(Len(GEMINI_MODELS) - 1) :
        i < currentModelIndex => i \in peers.called

(***************************************************************************)
(* C22.  After a failed attempt classified as quota or rate limit for      *)
(* which switchToNextModel returned true, analyzeImage sleeps exactly      *)
(* RETRY_DELAY_MS (1500 ms, not scaled by the attempt number) before the   *)
(* next attempt; after one classified as model not found for which         *)
(* switchToNextModel returned true, the next attempt starts with no sleep. *)
(***************************************************************************)
\* an attempt of the invocation fails and its catch block runs
FailStep ==
    \/ pc = "generate" /\ pc' \notin {"generate", "returned"}
    \/ pc = "metadata" /\ pc' # "generate"
          /\ (pc' # "metadata" \/ attempt' # attempt)

\* switchToNextModel() returns true when called
CanSwitch == currentModelIndex < Len(GEMINI_MODELS) - 1

C22_FixedDelayOrNone ==
    /\ [][(FailStep /\ CanSwitch /\ IsQuota(thrown')) =>
            /\ pc' = "sleep"
            /\ sleepMs' = 1500
            /\ attempt' = attempt
            /\ switches' = switches + 1
            /\ currentModelIndex' = currentModelIndex + 1]_vars
    /\ [][(FailStep /\ CanSwitch /\ ~IsQuota(thrown')
               /\ IsNotFound(thrown')) =>
            /\ pc' \in {"metadata", "failed"}
            /\ sleepMs' = 0
            /\ attempt' = attempt + 1
            /\ switches' = switches + 1]_vars
    /\ [][(pc = "sleep" /\ pc' # "sleep") =>
            /\ pc' \in {"metadata", "failed"}
            /\ attempt' = attempt + 1
            /\ UNCHANGED << sleepMs, switches, now >>]_vars

C22_Witness ==
    /\ pc = "sleep"
    /\ attempt = 2
    /\ thrown = "429 Too Many Requests"
    /\ sleepMs = RETRY_DELAY_MS
    /\ switches >= 1

(***************************************************************************)
(* C23.  When a quota or not-found failure occurs and switchToNextModel    *)
(* returns false (all candidates exhausted), analyzeImage falls through to *)
(* the last-attempt check: no sleep and no further registry call for that  *)
(* attempt, and the loop is left if this was the last attempt.             *)
(***************************************************************************)
C23_ExhaustedFallsThrough ==
    [][(FailStep /\ ~CanSwitch
            /\ (IsQuota(thrown') \/ IsNotFound(thrown'))) =>
        /\ sleepMs' = 0
        /\ pc' # "sleep"
        /\ switches' = switches + 1
        /\ attempt = MAX_RETRIES - 1 => pc' = "failed"]_vars

(***************************************************************************)
(* C24.  After attempt k (0-based) fails with an error that is neither     *)
(* quota nor not found, analyzeImage sleeps exactly RETRY_DELAY_MS *       *)
(* (k + 1) ms when k < MAX_RETRIES - 1 and does not sleep when             *)
(* k = MAX_RETRIES - 1, and it does not call switchToNextModel; an         *)
(* invocation whose 7 attempts all fail this way sleeps                    *)
(* 1500 * (1+2+3+4+5+6) = 31500 ms in total.                               *)
(***************************************************************************)
\* the delays of the catch block for a generic error on attempts 0..a, added
RECURSIVE BackoffThrough(_, _)
BackoffThrough(idx, a) ==
    IF a < 0 THEN 0
    ELSE CatchBlock(idx, a, "fetch failed").sleep + BackoffThrough(idx, a - 1)

C24_LinearBackoff ==
    /\ [][(FailStep /\ thrown' \in GenericErrors) =>
            /\ switches' = switches
            /\ currentModelIndex' = currentModelIndex
            /\ IF attempt < 6
               THEN /\ pc' = "sleep"
                    /\ sleepMs' = 1500 * (attempt + 1)
                    /\ attempt' = attempt
               ELSE /\ pc' = "failed"
                    /\ sleepMs' = 0
                    /\ attempt' = 7]_vars
    /\ [](BackoffThrough(currentModelIndex, MAX_RETRIES - 1) = 31500)

C24_Witness ==
    /\ pc = "sleep"
    /\ attempt = 5
    /\ calls = 6
    /\ thrown = "fetch failed"
    /\ sleepMs = 9000
    /\ switches = 0

(***************************************************************************)
(* C25.  While quota failures keep occurring with gaps shorter than the    *)
(* 60-second interval between consecutive getGeminiModel calls, no         *)
(* auto-reset is triggered: currentModelIndex does not return to 0 during  *)
(* such a run, however long the run lasts.                                 *)
(*                                                                         *)
(* As stated it fails: lastResetTime moves only at a reset, so the first   *)
(* getGeminiModel call made more than 60 s after the last reset resets the *)
(* index however close the call before it was.  What holds is that such a  *)
(* call keeps the index exactly while no more than 60 s have passed since  *)
(* the last reset.                                                         *)
(***************************************************************************)
\* getGeminiModel was just called, less than 60 s after the getGeminiModel
\* call before it, with switchToNextModel calls having advanced the index
InQuotaRun ==
    /\ lastCall.op = "getGeminiModel"
    /\ lastCall.prevGet >= 0
    /\ lastCall.time - lastCall.prevGet < 60000
    /\ lastCall.index > 0

C25_Original == InQuotaRun => currentModelIndex # 0

C25_KeptUntilInterval ==
    InQuotaRun =>
        IF lastCall.time - lastCall.last <= 60000
        THEN /\ currentModelIndex = lastCall.index
             /\ lastResetTime = lastCall.last
        ELSE /\ currentModelIndex = 0
             /\ lastResetTime = lastCall.time

\* a call of the run that kept the advanced index
C25_Witness ==
    /\ InQuotaRun
    /\ lastCall.time > lastCall.prevGet
    /\ lastCall.time - lastCall.last <= 60000
    /\ currentModelIndex = lastCall.index

(***************************************************************************)
(* C26.  Once the final attempt (attempt MAX_RETRIES - 1) of an invocation *)
(* has failed, analyzeImage throws the terminal error without performing   *)
(* any further sleep, whatever the classification of that last failure.    *)
(***************************************************************************)
C26_NoSleepAfterLast ==
    [][(FailStep /\ attempt = MAX_RETRIES - 1) =>
            /\ pc' = "failed"
            /\ sleepMs' = 0]_vars

(***************************************************************************)
(* C27.  An Edit Instruction returned by processImageWithPrompt carries    *)
(* usedFallback = true and a fallbackReason exactly when it was produced   *)
(* by the rule-based classifier instead of being parsed from the AI        *)
(* response.                                                               *)
(*                                                                         *)
(* As stated it fails: when analyzeImage returns a text that holds no      *)
(* object with a truthy action, the instruction comes from the classifier  *)
(* and carries neither field.  What holds is that the two fields are added *)
(* exactly in the path taken when analyzeImage threw; otherwise the value  *)
(* is the parsed object, or the classifier's result as it is.              *)
(***************************************************************************)
CarriesFallback(x) ==
    /\ Get(x, "usedFallback") = Bool(TRUE)
    /\ Get(x, "fallbackReason").t = "string"
    /\ Get(x, "fallbackReason").v # ""

\* the value returned is the object parsed from the text analyzeImage returned
ParsedFromAi ==
    /\ pc = "returned"
    /\ Truthy(parseJsonResponse(result))
    /\ Truthy(Get(parseJsonResponse(result), "action"))

InstructionReturned ==
    /\ op = "processImageWithPrompt"
    /\ opResult.done
    /\ ~opResult.threw

C27_Original == InstructionReturned => (CarriesFallback(opResult.value) <=> ~ParsedFromAi)

C27_FlaggedWhenUnavailable ==
    (op = "processImageWithPrompt" /\ opResult.done) =>
        /\ ~opResult.threw
        /\ IF pc = "failed"
           THEN /\ CarriesFallback(opResult.value)
                /\ opResult.value.v =
                      Put(Put(extractIntentFromResponse("", userPrompt).v,
                              "usedFallback", opResult.value.v["usedFallback"]),
                          "fallbackReason", opResult.value.v["fallbackReason"])
           ELSE IF ParsedFromAi
           THEN opResult.value = parseJsonResponse(result)
           ELSE /\ opResult.value = extractIntentFromResponse(result, userPrompt)
                /\ Get(opResult.value, "usedFallback") = Undefined
                /\ Get(opResult.value, "fallbackReason") = Undefined

\* an answer in prose: the classifier decides, and nothing tells the caller
C27_Witness ==
    /\ InstructionReturned
    /\ pc = "returned"
    /\ result = "A red bicycle leaning on a wall."
    /\ userPrompt = "Make it Black and White"
    /\ Get(Get(opResult.value, "parameters"), "type") = Str("grayscale")
    /\ ~CarriesFallback(opResult.value)

(***************************************************************************)
(* C28.  For every Edit Instruction whose action is in the closed set and  *)
(* whose parameters have a shape the data model lists for that action      *)
(* (filter type in {grayscale, sepia, blur, vintage}; enhance multipliers  *)
(* and sharpen flag; transform rotation degrees or flip axis; crop         *)
(* rectangle or named aspect ratio; resize), the POST /api/ai-edit         *)
(* executor applies at least one transformation, i.e. actionsApplied is    *)
(* non-empty; in particular this holds for every instruction the fallback  *)
(* classifier can produce.                                                 *)
(***************************************************************************)
IsNumber(x) == x.t = "number"

ListedShape(i) ==
    LET action == Get(i, "action")
        params == Get(i, "parameters")
    IN  /\ params.t = "object"
        /\ CASE action = Str("filter") ->
                    Get(params, "type") \in
                        { Str("grayscale"), Str("sepia"), Str("blur"),
                          Str("vintage") }
             [] action = Str("enhance") ->
                    \/ IsNumber(Get(params, "brightness"))
                    \/ IsNumber(Get(params, "contrast"))
                    \/ IsNumber(Get(params, "saturation"))
                    \/ Get(params, "sharpen").t = "boolean"
             [] action = Str("transform") ->
                    \/ IsNumber(Get(params, "rotate"))
                    \/ Get(params, "flip") \in
                            { Str("horizontal"), Str("vertical") }
             [] action = Str("crop") ->
                    \/ /\ IsNumber(Get(params, "left"))
                       /\ IsNumber(Get(params, "top"))
                       /\ IsNumber(Get(params, "width"))
                       /\ IsNumber(Get(params, "height"))
                    \/ Get(params, "aspectRatio") \in
                            { Str("16:9"), Str("4:3"), Str("1:1") }
             [] action = Str("resize") ->
                    /\ IsNumber(Get(params, "width"))
                    /\ IsNumber(Get(params, "height"))
             [] OTHER -> FALSE

EditAnswered ==
    /\ op = "POST /api/ai-edit"
    /\ opResult.done
    /\ ~opResult.threw
    /\ Get(opResult.value, "status") = Num(20000)

EditData == Get(Get(opResult.value, "body"), "data")

C28_SomethingApplied ==
    (EditAnswered /\ ListedShape(Get(EditData, "aiInstructions"))) =>
        Len(Get(EditData, "actionsApplied").v) > 0

(***************************************************************************)
(* C29.  A prompt that contains "warm" or "golden" and matches none of the *)
(* earlier keyword groups as the spec names them (grayscale /              *)
(* black-and-white, sepia / vintage, blur, vibrant / saturate, bright /    *)
(* lighten, dark / dim, sharpen / detail, contrast, rotate, flip / mirror, *)
(* 16:9, 4:3, 1:1), for example "golden hour", is classified as the        *)
(* warm-tone instruction {action: enhance, parameters: {saturation: 1.2,   *)
(* brightness: 1.05}}.                                                     *)
(***************************************************************************)
NamedEarlier ==
    { "grayscale", "black and white", "black-and-white", "sepia", "vintage",
      "blur", "vibrant", "saturate", "bright", "lighten", "dark", "dim",
      "sharpen", "detail", "contrast", "rotate", "flip", "mirror", "16:9",
      "4:3", "1:1" }

WarmOnly(lowerPrompt) ==
    /\ Includes(lowerPrompt, "warm") \/ Includes(lowerPrompt, "golden")
    /\ \A w \in NamedEarlier : ~Includes(lowerPrompt, w)

C29_WarmTone ==
    (Classified /\ WarmOnly(ToLowerCase(userPrompt))) =>
        /\ Get(opResult.value, "action") = Str("enhance")
        /\ Get(opResult.value, "parameters")
              = Obj([ saturation |-> Num(120), brightness |-> Num(105) ])

(***************************************************************************)
(* C30.  If the storage provider's destroy call fails while trackDownload  *)
(* handles a request for a file whose download limit is already reached,   *)
(* trackDownload throws the error and leaves the tracker entry unchanged   *)
(* (still present with downloads = maxDownloads), so the request is not    *)
(* granted and a later request retries the deletion.                       *)
(*                                                                         *)
(* As stated it fails when the deletion timer, or another request for the  *)
(* same file, had its own destroy call resolve while this one was awaited: *)
(* the entry is then already gone.  What holds is that the failing call    *)
(* changes neither the tracker nor the file and grants nothing, and that   *)
(* the entry, when it is still there, is at its limit, so that the next    *)
(* request takes the deleting branch again.                                *)
(***************************************************************************)
\* the destroy call awaited by a trackDownload(id) rejects and it throws
FailedDelete(id) ==
    /\ pending'[id] < pending[id]
    /\ downloadResult' = Rejected("trackDownload", id)

C30_Original ==
    [][\A id \in PublicIds :
            FailedDelete(id) =>
                /\ downloadTracker'[id] = downloadTracker[id]
                /\ granted' = granted
                /\ downloadTracker'[id] = Entry(maxDownloads, maxDownloads)]_vars

C30_NothingChanged ==
    [][\A id \in PublicIds :
            FailedDelete(id) =>
                /\ downloadTracker' = downloadTracker
                /\ files' = files
                /\ granted' = granted
                /\ IF downloadTracker'[id].tracked
                   THEN /\ downloadTracker'[id]
                              = Entry(maxDownloads, maxDownloads)
                        /\ LimitReached(downloadTracker'[id])
                   ELSE files'[id] = "destroyed"]_vars

\* a request over the limit has thrown, the file and its entry are still there
C30_Witness ==
    \E id \in PublicIds :
        /\ downloadResult = Rejected("trackDownload", id)
        /\ destroyFailed[id]
        /\ files[id] = "stored"
        /\ granted[id] = maxDownloads
        /\ downloadTracker[id] = Entry(maxDownloads, maxDownloads)

====
